---- MODULE Spec2Model ----
(***************************************************************************)
(* Signaling server of the MediaSoup voice room (backend index.js, kept in *)
(* src/unnamed/part_000): the global stores, the socket.io connection      *)
(* handler and the request handlers it registers.  Peer ids are unique:    *)
(* connection p carries peerId p and socket id p, and connects once.       *)
(* The media engine (mediasoup) is the environment: an operation on a live *)
(* handle may succeed or fail, an operation on a closed handle fails.      *)
(***************************************************************************)
EXTENDS Integers, Sequences, FiniteSets, TLC

\* Bounds of the model.
NumPeers == 2
NumRooms == 2
MediaRooms == 1
MaxTransports == 2
MaxProducers == 1
MaxConsumers == 1
MaxJoins == 1
MaxSamples == 5
MaxUnmutes == 2
MaxAnnounced == 2
MaxConnectEvents == 2

Peers == 1..NumPeers
RoomIds == 1..NumRooms
Kinds == {"audio", "video"}

\* private speakingThreshold: number = -50 (dB), and the levels sampled:
\* below it, on it and above it.
speakingThreshold == -50

\* const maxAttempts = 3, and what the callback of a capability request
\* can be invoked with.
maxAttempts == 3
Responses == {"result", "error", "empty"}
Levels == {-60, -50, -40}

VARIABLES
    rooms,        \* const rooms = new Map(): roomId -> room object (0: no entry)
    roomObjs,     \* the room objects createRoom has built, named by the peer
                  \* whose connection handler built them
    peers,        \* const peers = new Map(): the socket ids it holds
    transports,   \* const transports = new Map(): transport id -> transport
    producers,    \* const producers = new Map(): producer id -> producer
    consumers,    \* const consumers = new Map(): consumer id -> consumer
    users,        \* const users = new Map(): userId -> user
    sioRooms,     \* socket.io adapter: room name -> socket ids joined to it
    conn,         \* per connection: socket state and the handler's closure
    peerObj,      \* per connection: the peer object of the connection handler
    pend,         \* per connection: the handler suspended at an await
    joins,        \* per connection: joinRoom messages handled
    announcedIp,  \* mediasoupSettings.webRtcTransport.listenIps[0].announcedIp
                  \* (0: null)
    server,       \* the process: start() before, in and after server.listen,
                  \* and workers.length
    out,          \* what the last step sent: the callback's invocations for
                  \* the request it served, and the events it delivered
    view,         \* per connection: the users state of its VoiceRoom
    known,        \* per connection: the producers its newProducer listener
                  \* has been called for
    cli,          \* one room view and its MediasoupClient: the capability
                  \* fetch, connect() and initializeRoom
    mic,          \* one MediasoupClient: its producer, the audio level
                  \* detection and the speaking events it has emitted
    calls         \* what the last step of that client did, in order: the
                  \* requests and events it emitted on its socket, the
                  \* callbacks it invoked and the objects it closed

vars == <<rooms, roomObjs, peers, transports, producers, consumers, users,
          sioRooms, conn, peerObj, pend, joins, announcedIp, server, out,
          view, known, cli, mic, calls>>

\* The state of the server, and the state of the clients.
serverVars == <<rooms, roomObjs, peers, transports, producers, consumers,
                users, sioRooms, conn, peerObj, pend, joins, announcedIp,
                server, out>>
clientVars == <<view, known, cli, mic, calls>>
notMic == <<serverVars, view, known, cli>>
notCli == <<serverVars, view, known, mic>>

NoRoom == [id |-> 0, router |-> "none", peers |-> {}, recordings |-> {}]
NoUser == [id |-> 0, isSpeaking |-> FALSE]
NoPend == [op |-> "none", arg |-> 0, aux |-> 0]
NoPeer == [transports |-> <<>>, producers |-> {}, consumers |-> {}]
NoResp == [peer |-> 0, op |-> "none", arg |-> 0, acks |-> 0, dropped |-> FALSE,
           ok |-> FALSE, err |-> "none", id |-> 0]
NoEvts == << >>
\* const [users, setUsers] = useState<User[]>([]): per user id, whether the
\* list holds the user and with which isSpeaking.
NoView == [u \in Peers |-> "absent"]
\* A local transport that has not emitted 'connect': `events` counts its
\* connect events, `st` is where the handler of the last one stands and
\* `answer` what the server answered to its request.
NoConnect == [st |-> "new", events |-> 0, answer |-> "none"]
\* No newProducer event has reached the listener.
NoHeard == [peer |-> 0, producer |-> 0, kind |-> "none"]
\* A room view that has not started initializeRoom: `pc` is the place of
\* connect(), `fetch` the promise of loadRouterRtpCapabilities, `timer` its
\* 20 s timeout and `phase` whether a request or a retry delay is running.
\* `socketOpen` is false once the view's cleanup has called
\* socket.disconnect() and `link` is "down" while the socket has lost its
\* connection and not yet got it back; `seen` counts the newProducer events handled and
\* `heard` is the last one; `consuming` are the consume() calls that sent a
\* request, in order, and `consumers` the keys of this.consumers.
NoCli == [pc |-> "init", fetch |-> "idle", attempts |-> 0, timer |-> "off",
          phase |-> "none", sendTransport |-> FALSE, recvTransport |-> FALSE,
          isConnected |-> FALSE, viewConnected |-> FALSE, joinSent |-> FALSE,
          refused |-> {}, requested |-> {},
          socketOpen |-> TRUE, link |-> "up",
          tconn |-> [send |-> NoConnect, recv |-> NoConnect],
          seen |-> 0, heard |-> NoHeard, consuming |-> <<>>, consumers |-> {}]
\* A client that has no producer: `levels` are the levels its detection has
\* sampled and `sent` the speaking events it has emitted, l0 and s0 their
\* lengths when the running detection was set up.  isMicOn is the flag of the
\* room view; `media` and `making` count the produce() calls that await
\* getUserMedia and sendTransport.produce; `leaked` counts the producers that
\* are open and no longer in this.producer, and `lost` holds the `speaking`
\* of each interval that runs and is no longer in this.audioLevelInterval.
NoMic == [producing |-> FALSE, speaking |-> FALSE, levels |-> <<>>,
          sent |-> <<>>, l0 |-> 0, s0 |-> 0, unmutes |-> 0,
          isProducing |-> FALSE, isRecording |-> FALSE,
          isMicOn |-> FALSE, media |-> 0, making |-> 0, leaked |-> 0,
          lost |-> <<>>]
NoCalls == << >>
NoOut == [resp |-> NoResp, evts |-> NoEvts]
\* The process between the call of start() and its first await returning.
NoServer == [phase |-> "starting", workers |-> 0]

\* callback(result) or callback({error}) of the request `op(arg)` of peer p,
\* invoked once.
Reply(p, op, arg, ok, err, id) ==
    [peer |-> p, op |-> op, arg |-> arg, acks |-> 1, dropped |-> FALSE,
     ok |-> ok, err |-> err, id |-> id]

\* An event that carries no callback, as received from peer p: `arg` is the
\* payload's roomId, `id` its userId or peerId and `ok` its speaking.
Received(p, op, roomId, id, speaking) ==
    [NoResp EXCEPT !.peer = p, !.op = op, !.arg = roomId, !.id = id,
                   !.ok = speaking]

Event(type, peer, id, kind, list) ==
    [type |-> type, peer |-> peer, id |-> id, kind |-> kind, list |-> list]

Count(bag, x) == IF x \in DOMAIN bag THEN bag[x] ELSE 0

\* The deliveries of a step are a bag of <<recipient, event>>.
Emit(bag, R, e) ==
    LET new == {<<q, e>> : q \in R}
    IN [x \in DOMAIN bag \cup new |->
          Count(bag, x) + (IF x \in new THEN 1 ELSE 0)]

\* socket.to(room).emit(e): every socket joined to the socket.io room but the
\* sender; the adapter skips socket ids whose socket is gone.
ToRoom(bag, room, from, e) ==
    Emit(bag, {q \in sioRooms[room] : q # from /\ conn[q].live}, e)

\* socket.emit(e): to the connection's own client.
ToSelf(bag, p, e) ==
    Emit(bag, {q \in {p} : conn[q].live}, e)

SeqToSet(s) == {s[i] : i \in 1..Len(s)}

Init ==
    /\ rooms = [r \in RoomIds |-> 0]
    /\ roomObjs = [o \in Peers |-> NoRoom]
    /\ peers = {}
    /\ transports = <<>>
    /\ producers = <<>>
    /\ consumers = <<>>
    /\ users = [u \in Peers |-> NoUser]
    /\ sioRooms = [r \in RoomIds |-> {}]
    /\ conn = [p \in Peers |->
                 [st |-> "idle", live |-> FALSE, roomId |-> 0, room |-> 0]]
    /\ peerObj = [p \in Peers |-> NoPeer]
    /\ pend = [p \in Peers |-> NoPend]
    /\ joins = [p \in Peers |-> 0]
    /\ announcedIp = 0
    /\ server = NoServer
    /\ out = NoOut
    /\ view = [q \in Peers |-> NoView]
    /\ known = [q \in Peers |-> {}]
    /\ cli = NoCli
    /\ mic = NoMic
    /\ calls = NoCalls

\* numWorkers of createWorkers: mediasoupSettings has no numWorkers, so the
\* default of the destructuring.
numWorkers == 1

\* A start that goes on to server.listen whether or not the workers exist.
StartListensAnyway(fails) ==
    /\ server.phase = "starting"
    /\ server' = [phase |-> "listening",
                  workers |-> IF fails THEN 0 ELSE numWorkers]
    /\ out' = NoOut
    /\ UNCHANGED <<rooms, roomObjs, peers, transports, producers, consumers,
                   users, sioRooms, conn, peerObj, pend, joins, announcedIp>>
    /\ UNCHANGED clientVars

\* start(): await createWorkers(), then server.listen; when createWorker
\* rejects, the catch logs and calls process.exit(1).
Start(fails) ==
    /\ server.phase = "starting"
    /\ server' = IF fails THEN [phase |-> "exited", workers |-> 0]
                 ELSE [phase |-> "listening", workers |-> numWorkers]
    /\ out' = NoOut
    /\ UNCHANGED <<rooms, roomObjs, peers, transports, producers, consumers,
                   users, sioRooms, conn, peerObj, pend, joins, announcedIp>>
    /\ UNCHANGED clientVars

\* worker.on('died'): process.exit(1).  The process and all it held are
\* gone, and every socket with it.
WorkerDied ==
    /\ server.phase = "listening"
    /\ server' = [phase |-> "exited", workers |-> 0]
    /\ rooms' = [r \in RoomIds |-> 0]
    /\ roomObjs' = [o \in Peers |-> NoRoom]
    /\ peers' = {}
    /\ transports' = <<>>
    /\ producers' = <<>>
    /\ consumers' = <<>>
    /\ users' = [u \in Peers |-> NoUser]
    /\ sioRooms' = [r \in RoomIds |-> {}]
    /\ conn' = [p \in Peers |->
                  [st |-> "idle", live |-> FALSE, roomId |-> 0, room |-> 0]]
    /\ peerObj' = [p \in Peers |-> NoPeer]
    /\ pend' = [p \in Peers |-> NoPend]
    /\ joins' = [p \in Peers |-> 0]
    /\ announcedIp' = 0
    /\ out' = NoOut
    /\ UNCHANGED clientVars

\* The rest of the connection handler once `room` is known: socket.join, the
\* peer object, room.peers.set, peers.set and the socket.on registrations.
JoinAs(p, r, o, objs, live) ==
    /\ sioRooms' = [sioRooms EXCEPT ![r] = @ \cup {p}]
    /\ roomObjs' = [objs EXCEPT ![o].peers = @ \cup {p}]
    /\ peers' = peers \cup {p}
    /\ peerObj' = [peerObj EXCEPT ![p] = NoPeer]
    /\ conn' = [conn EXCEPT ![p] =
                  [st |-> "open", live |-> live, roomId |-> r, room |-> o]]

\* io.on('connection') up to its first await: rooms.get(roomId) finds the room
\* and the handler runs to its end, or createRoom is called and the handler
\* is suspended at await worker.createRouter.
Connect(p, r) ==
    /\ server.phase = "listening"
    /\ conn[p].st = "idle"
    /\ IF rooms[r] # 0
       THEN /\ JoinAs(p, r, rooms[r], roomObjs, TRUE)
            /\ UNCHANGED rooms
       ELSE /\ conn' = [conn EXCEPT ![p] =
                  [st |-> IF server.workers = 0 THEN "failed" ELSE "awaiting",
                   live |-> TRUE, roomId |-> r, room |-> 0]]
            /\ UNCHANGED <<rooms, roomObjs, peers, sioRooms, peerObj>>
    /\ out' = NoOut
    /\ UNCHANGED <<transports, producers, consumers, users, pend, joins>>
    /\ UNCHANGED clientVars
    /\ UNCHANGED <<announcedIp, server>>

\* createRoom after await worker.createRouter: a new room object with its own
\* router, rooms.set(roomId, room), and the connection handler goes on.
CreateRoomDone(p) ==
    /\ conn[p].st = "awaiting"
    /\ LET r == conn[p].roomId
           room == [id |-> r, router |-> "open", peers |-> {},
                    recordings |-> {}]
       IN /\ rooms' = [rooms EXCEPT ![r] = p]
          /\ JoinAs(p, r, p, [roomObjs EXCEPT ![p] = room], conn[p].live)
    /\ out' = NoOut
    /\ UNCHANGED <<transports, producers, consumers, users, pend, joins>>
    /\ UNCHANGED clientVars
    /\ UNCHANGED <<announcedIp, server>>

\* transport.close() of the transports in T: the engine closes the producers
\* and consumers on them, and the consumers of a closed producer.
ClosedTransports(T) ==
    [t \in DOMAIN transports |->
        IF t \in T THEN [transports[t] EXCEPT !.state = "closed"]
        ELSE transports[t]]

ClosedProducers(T) ==
    [i \in DOMAIN producers |->
        IF producers[i].transport \in T THEN [producers[i] EXCEPT !.closed = TRUE]
        ELSE producers[i]]

ClosedConsumers(T) ==
    [c \in DOMAIN consumers |->
        IF \/ consumers[c].transport \in T
           \/ producers[consumers[c].producer].transport \in T
        THEN [consumers[c] EXCEPT !.closed = TRUE]
        ELSE consumers[c]]

\* socket.on('disconnect'): the handler body.
OnDisconnect(p) ==
    LET r == conn[p].roomId
        o == conn[p].room
        left == roomObjs[o].peers \ {p}
        T == SeqToSet(peerObj[p].transports)
    IN /\ transports' = ClosedTransports(T)
       /\ producers' = ClosedProducers(T)
       /\ consumers' = ClosedConsumers(T)
       /\ out' = [resp |-> NoResp,
                  evts |-> ToRoom(ToRoom(NoEvts, r, p,
                                     Event("peerDisconnected", p, 0, "none", {})),
                                  r, p, Event("userLeft", p, 0, "none", {}))]
       /\ roomObjs' = [roomObjs EXCEPT ![o].peers = left]
       /\ peers' = peers \ {p}
       /\ users' = [users EXCEPT ![p] = NoUser]
       /\ rooms' = IF left = {} THEN [rooms EXCEPT ![r] = 0] ELSE rooms

\* The socket closes (client close, ping timeout, transport error): socket.io
\* leaves its rooms and emits 'disconnect', which reaches the handler above
\* only if the connection handler has registered it.
Disconnect(p) ==
    /\ conn[p].live
    /\ sioRooms' = [r \in RoomIds |-> sioRooms[r] \ {p}]
    /\ IF conn[p].st = "open"
       THEN /\ OnDisconnect(p)
            /\ conn' = [conn EXCEPT ![p].live = FALSE, ![p].st = "closed"]
       ELSE /\ conn' = [conn EXCEPT ![p].live = FALSE]
            /\ out' = NoOut
            /\ UNCHANGED <<rooms, roomObjs, peers, transports, producers,
                           consumers, users>>
    /\ UNCHANGED <<peerObj, pend, joins>>
    /\ UNCHANGED clientVars
    /\ UNCHANGED <<announcedIp, server>>

\* A request reaches the socket of a handler that has registered its
\* listeners and is not suspended in an earlier request of this connection.
CanRequest(p) ==
    conn[p].live /\ conn[p].st = "open" /\ pend[p] = NoPend

Pending(op) == Cardinality({q \in Peers : pend[q].op = op})

CallbackOps ==
    {"getRouterRtpCapabilities", "createWebRtcTransport",
     "connectWebRtcTransport", "produce", "consume", "resumeConsumer",
     "stopRecording"}

\* A request arrives while the connection handler is suspended in createRoom:
\* no listener is registered yet, socket.io drops the event and its callback.
RequestBeforeHandlers(p, op) ==
    /\ conn[p].live
    /\ conn[p].st = "awaiting"
    /\ out' = [resp |-> [NoResp EXCEPT !.peer = p, !.op = op, !.dropped = TRUE],
               evts |-> NoEvts]
    /\ UNCHANGED <<rooms, roomObjs, peers, transports, producers, consumers,
                   users, sioRooms, conn, peerObj, pend, joins>>
    /\ UNCHANGED clientVars
    /\ UNCHANGED <<announcedIp, server>>

\* socket.on('getRouterRtpCapabilities'): room and room.router are set, the
\* callback gets the capabilities of the router of the handler's room.
GetRouterRtpCapabilities(p) ==
    /\ CanRequest(p)
    /\ out' = [resp |->
                 IF conn[p].room = 0 \/ roomObjs[conn[p].room].router = "none"
                 THEN Reply(p, "getRouterRtpCapabilities", 0, FALSE, "Internal", 0)
                 ELSE Reply(p, "getRouterRtpCapabilities", 0, TRUE, "none",
                            conn[p].room),
               evts |-> NoEvts]
    /\ UNCHANGED <<rooms, roomObjs, peers, transports, producers, consumers,
                   users, sioRooms, conn, peerObj, pend, joins>>
    /\ UNCHANGED clientVars
    /\ UNCHANGED <<announcedIp, server>>

\* socket.on('joinRoom'): userId and roomId are the payload's (roomId shadows
\* the handshake's); room is the handler's room object.
JoinRoom(p, userId, roomId) ==
    /\ CanRequest(p)
    /\ joins[p] < MaxJoins
    /\ joins' = [joins EXCEPT ![p] = @ + 1]
    /\ LET user == [id |-> userId, isSpeaking |-> FALSE]
           stored == [users EXCEPT ![userId] = user]
           roomUsers == {stored[u] : u \in
                          {v \in Peers : /\ stored[v] # NoUser
                                         /\ v \in roomObjs[conn[p].room].peers}}
       IN /\ users' = stored
          /\ out' = [resp |-> Received(p, "joinRoom", roomId, userId, FALSE),
                     evts |-> ToSelf(ToRoom(NoEvts, roomId, p,
                                  Event("userJoined", userId, 0, "none", {})),
                                p, Event("users", 0, 0, "none", roomUsers))]
    /\ UNCHANGED <<rooms, roomObjs, peers, transports, producers, consumers,
                   sioRooms, conn, peerObj, pend>>
    /\ UNCHANGED clientVars
    /\ UNCHANGED <<announcedIp, server>>

\* A fan-out with socket.emit in place of socket.to(roomId).emit: the event
\* goes back to its sender.
UserSpeakingEcho(p, roomId, peerId, speaking) ==
    ToSelf(NoEvts, p, Event("userSpeaking", peerId, 0,
                            IF speaking THEN "speaking" ELSE "quiet", {}))

\* socket.to(roomId).emit('userSpeaking', peerId, speaking) with the
\* payload's roomId and peerId.
UserSpeaking(p, roomId, peerId, speaking) ==
    ToRoom(NoEvts, roomId, p, Event("userSpeaking", peerId, 0,
                                    IF speaking THEN "speaking" ELSE "quiet", {}))

\* A flag that, once set, stays set.
SetSpeakingSticky(peerId, speaking) ==
    IF users[peerId] # NoUser
    THEN [users EXCEPT ![peerId].isSpeaking = @ \/ speaking]
    ELSE users

\* const user = users.get(peerId); if (user) { user.isSpeaking = speaking; ... }
SetSpeaking(peerId, speaking) ==
    IF users[peerId] # NoUser
    THEN [users EXCEPT ![peerId].isSpeaking = speaking]
    ELSE users

\* socket.on('speaking'): roomId and peerId are the payload's (they shadow
\* the handshake's); the flag is stored if users holds the peerId.
Speaking(p, roomId, peerId, speaking) ==
    /\ CanRequest(p)
    /\ users' = SetSpeaking(peerId, speaking)
    /\ out' = [resp |-> Received(p, "speaking", roomId, peerId, speaking),
               evts |-> UserSpeaking(p, roomId, peerId, speaking)]
    /\ UNCHANGED <<rooms, roomObjs, peers, transports, producers, consumers,
                   sioRooms, conn, peerObj, pend, joins>>
    /\ UNCHANGED clientVars
    /\ UNCHANGED <<announcedIp, server>>

\* const clientIp = ... socket.handshake.address: the peers connect from
\* different addresses.
ClientIp(p) == p

\* createWebRtcTransport(router, clientIp) up to its await: transportSettings
\* is a shallow copy, so listenIps[0] is the object of mediasoupSettings, and
\* the address written into it when it holds null stays there.
AnnouncedIp(clientIp) == IF announcedIp = 0 THEN clientIp ELSE announcedIp

\* socket.on('createWebRtcTransport') up to await createWebRtcTransport(...).
\* The handler does not read `sender`.
CreateWebRtcTransport(p, sender) ==
    /\ CanRequest(p)
    /\ Len(transports) + Pending("createWebRtcTransport") < MaxTransports
    /\ announcedIp' = AnnouncedIp(ClientIp(p))
    /\ pend' = [pend EXCEPT ![p] =
          [op |-> "createWebRtcTransport", arg |-> 0,
           aux |-> AnnouncedIp(ClientIp(p))]]
    /\ out' = NoOut
    /\ UNCHANGED <<rooms, roomObjs, peers, transports, producers, consumers,
                   users, sioRooms, conn, peerObj, joins>>
    /\ UNCHANGED clientVars
    /\ UNCHANGED server

\* ... and after it: the transport is stored in peer.transports and in
\* transports, or the engine's error is caught and sent.  The server keeps no
\* direction with the transport.
CreateWebRtcTransportDone(p, fails) ==
    /\ pend[p].op = "createWebRtcTransport"
    /\ pend' = [pend EXCEPT ![p] = NoPend]
    /\ IF fails
       THEN /\ out' = [resp |-> Reply(p, "createWebRtcTransport", 0, FALSE,
                                      "Internal", 0),
                       evts |-> NoEvts]
            /\ UNCHANGED <<transports, peerObj>>
       ELSE LET id == Len(transports) + 1
            IN /\ transports' = Append(transports,
                     [owner |-> p, router |-> conn[p].room, state |-> "new",
                      announcedIp |-> pend[p].aux])
               /\ peerObj' = [peerObj EXCEPT ![p].transports = Append(@, id)]
               /\ out' = [resp |-> Reply(p, "createWebRtcTransport", 0, TRUE,
                                         "none", id),
                          evts |-> NoEvts]
    /\ UNCHANGED <<rooms, roomObjs, peers, producers, consumers, users,
                   sioRooms, conn, joins>>
    /\ UNCHANGED clientVars
    /\ UNCHANGED <<announcedIp, server>>

\* An engine that rejects the second connect alone.
ConnectRejectedOnce(t, fails) ==
    fails \/ transports[t].state = "connected"

\* await transport.connect({ dtlsParameters }) throws: the engine connects a
\* new transport, and rejects a second connect and a connect of a closed
\* transport.
ConnectRejected(t, fails) ==
    fails \/ transports[t].state # "new"

\* socket.on('connectWebRtcTransport'): the transport is looked up in the
\* global store by the id alone, and error.message of the engine is sent
\* back.  Nothing but the callback follows the await, so the handler is one
\* step.
ConnectWebRtcTransport(p, t, fails) ==
    /\ CanRequest(p)
    /\ IF t \notin DOMAIN transports
       THEN /\ out' = [resp |-> Reply(p, "connectWebRtcTransport", t, FALSE,
                                      "NotFound", 0),
                       evts |-> NoEvts]
            /\ UNCHANGED transports
       ELSE IF ConnectRejected(t, fails)
       THEN /\ out' = [resp |-> Reply(p, "connectWebRtcTransport", t, FALSE,
                                      IF transports[t].state = "connected"
                                      THEN "AlreadyConnected" ELSE "Internal",
                                      0),
                       evts |-> NoEvts]
            /\ UNCHANGED transports
       ELSE /\ transports' = [transports EXCEPT ![t].state = "connected"]
            /\ out' = [resp |-> Reply(p, "connectWebRtcTransport", t, TRUE,
                                      "none", 0),
                       evts |-> NoEvts]
    /\ UNCHANGED <<rooms, roomObjs, peers, producers, consumers, users,
                   sioRooms, conn, peerObj, pend, joins>>
    /\ UNCHANGED clientVars
    /\ UNCHANGED <<announcedIp, server>>

\* socket.on('produce') up to await transport.produce(...): the transport is
\* looked up in the global store by the id alone.
Produce(p, t, kind) ==
    /\ CanRequest(p)
    /\ IF t \notin DOMAIN transports
       THEN /\ out' = [resp |-> Reply(p, "produce", t, FALSE, "NotFound", 0),
                       evts |-> NoEvts]
            /\ UNCHANGED pend
       ELSE /\ Len(producers) + Pending("produce") < MaxProducers
            /\ out' = NoOut
            /\ pend' = [pend EXCEPT ![p] =
                  [op |-> "produce", arg |-> t, aux |-> kind]]
    /\ UNCHANGED <<rooms, roomObjs, peers, transports, producers, consumers,
                   users, sioRooms, conn, peerObj, joins>>
    /\ UNCHANGED clientVars
    /\ UNCHANGED <<announcedIp, server>>

\* The rtpParameters a client sends with produce: the codec of the kind and
\* a stream description of the client's own (ssrc, mid, payload types).
ClientRtpParameters(p, kind) ==
    [codec |-> IF kind = "audio" THEN "opus" ELSE "vp8",
     stream |-> <<"client", p>>]

\* transport.produce({ kind, rtpParameters }).
NewProducer(p, t, kind) ==
    [owner |-> p, transport |-> t, kind |-> kind, closed |-> FALSE,
     rtpParameters |-> ClientRtpParameters(p, kind)]

\* A fan-out with io.to(roomId) in place of socket.to(roomId): the sender
\* is not left out.
NewProducerEventsToAll(p, id, kind) ==
    Emit(NoEvts, {q \in sioRooms[conn[p].roomId] : conn[q].live},
         Event("newProducer", p, id, kind, {}))

\* The newProducer fan-out of socket.on('produce'): socket.to(roomId).emit
\* with the handshake's roomId.
NewProducerEvents(p, id, kind) ==
    ToRoom(NoEvts, conn[p].roomId, p, Event("newProducer", p, id, kind, {}))

\* ... and after it.  The engine rejects a kind the router has no codec for
\* (mediaCodecs holds audio/opus alone) and a closed transport; it asks
\* neither for a connected transport nor for the caller's own.  The producer
\* is stored, newProducer is sent, the callback is invoked, and then
\* startRecording runs inside the same try: if it throws, the catch invokes
\* the callback a second time.
ProduceDone(p, fails, recFails) ==
    /\ pend[p].op = "produce"
    /\ pend' = [pend EXCEPT ![p] = NoPend]
    /\ LET t == pend[p].arg
           kind == pend[p].aux
           id == Len(producers) + 1
           o == conn[p].room
       IN IF fails \/ kind # "audio" \/ transports[t].state = "closed"
          THEN /\ out' = [resp |-> Reply(p, "produce", t, FALSE, "Internal", 0),
                          evts |-> NoEvts]
               /\ UNCHANGED <<producers, peerObj, roomObjs>>
          ELSE /\ producers' = Append(producers, NewProducer(p, t, kind))
               /\ peerObj' = [peerObj EXCEPT ![p].producers = @ \cup {id}]
               /\ IF recFails
                  THEN /\ out' = [resp |->
                                    [Reply(p, "produce", t, TRUE, "Internal", id)
                                       EXCEPT !.acks = 2],
                                  evts |-> NewProducerEvents(p, id, kind)]
                       /\ UNCHANGED roomObjs
                  ELSE /\ out' = [resp |-> Reply(p, "produce", t, TRUE, "none", id),
                                  evts |-> NewProducerEvents(p, id, kind)]
                       /\ roomObjs' = [roomObjs EXCEPT
                                         ![o].recordings = @ \cup {id}]
    /\ UNCHANGED <<rooms, peers, transports, consumers, users, sioRooms,
                   conn, joins>>
    /\ UNCHANGED clientVars
    /\ UNCHANGED <<announcedIp, server>>

\* room.router.canConsume: the producer is a live producer of this router and
\* the capabilities sent are compatible.
CanConsume(o, pr, capsOk) ==
    /\ capsOk
    /\ ~producers[pr].closed
    /\ transports[producers[pr].transport].router = o

\* The transport the consume handler attaches the consumer to: the first
\* entry of peer.transports in insertion order (0: none).
ConsumerTransport(p) ==
    IF peerObj[p].transports = <<>> THEN 0 ELSE Head(peerObj[p].transports)

\* socket.on('consume') up to await consumerTransport.consume(...).
Consume(p, pr, capsOk) ==
    /\ CanRequest(p)
    /\ IF pr \notin DOMAIN producers
       THEN /\ out' = [resp |-> Reply(p, "consume", pr, FALSE, "NotFound", 0),
                       evts |-> NoEvts]
            /\ UNCHANGED pend
       ELSE IF ~CanConsume(conn[p].room, pr, capsOk)
       THEN /\ out' = [resp |-> Reply(p, "consume", pr, FALSE, "Incompatible", 0),
                       evts |-> NoEvts]
            /\ UNCHANGED pend
       ELSE IF ConsumerTransport(p) = 0
       THEN /\ out' = [resp |-> Reply(p, "consume", pr, FALSE, "NoTransport", 0),
                       evts |-> NoEvts]
            /\ UNCHANGED pend
       ELSE /\ Len(consumers) + Pending("consume") < MaxConsumers
            /\ out' = NoOut
            /\ pend' = [pend EXCEPT ![p] =
                  [op |-> "consume", arg |-> pr, aux |-> ConsumerTransport(p)]]
    /\ UNCHANGED <<rooms, roomObjs, peers, transports, producers, consumers,
                   users, sioRooms, conn, peerObj, joins>>
    /\ UNCHANGED clientVars
    /\ UNCHANGED <<announcedIp, server>>

\* Consumer parameters in another codec than the producer's.
ConsumerRtpParametersRecoded(pr, id) ==
    [codec |-> "pcmu", stream |-> <<"consumer", id>>]

\* consumer.rtpParameters: the engine keeps the producer's codec and gives
\* the consumer a stream description of its own (its ssrc and mid, the
\* router's payload types), which is what the receiving transport needs.
ConsumerRtpParameters(pr, id) ==
    [codec |-> producers[pr].rtpParameters.codec, stream |-> <<"consumer", id>>]

\* A consume that leaves `paused: true` out.
NewConsumerActive(p, ct, pr) ==
    [owner |-> p, transport |-> ct, producer |-> pr, paused |-> FALSE,
     closed |-> FALSE, kind |-> producers[pr].kind,
     rtpParameters |-> ConsumerRtpParameters(pr, Len(consumers) + 1)]

\* consumerTransport.consume({producerId, rtpCapabilities, paused: true}).
NewConsumer(p, ct, pr) ==
    [owner |-> p, transport |-> ct, producer |-> pr, paused |-> TRUE,
     closed |-> FALSE, kind |-> producers[pr].kind,
     rtpParameters |-> ConsumerRtpParameters(pr, Len(consumers) + 1)]

\* callback({ id, producerId, kind, rtpParameters }) of consume, for the
\* consumer `id` it has stored.
ConsumeResponse(id) ==
    [id |-> id, producerId |-> consumers[id].producer,
     kind |-> consumers[id].kind,
     rtpParameters |-> consumers[id].rtpParameters]

\* ... and after it.  The engine rejects a closed transport and a closed
\* producer; it does not ask for a connected transport.
ConsumeDone(p, fails) ==
    /\ pend[p].op = "consume"
    /\ pend' = [pend EXCEPT ![p] = NoPend]
    /\ LET pr == pend[p].arg
           ct == pend[p].aux
           id == Len(consumers) + 1
       IN IF fails \/ transports[ct].state = "closed" \/ producers[pr].closed
          THEN /\ out' = [resp |-> Reply(p, "consume", pr, FALSE, "Internal", 0),
                          evts |-> NoEvts]
               /\ UNCHANGED <<consumers, peerObj>>
          ELSE /\ consumers' = Append(consumers, NewConsumer(p, ct, pr))
               /\ peerObj' = [peerObj EXCEPT ![p].consumers = @ \cup {id}]
               /\ out' = [resp |-> Reply(p, "consume", pr, TRUE, "none", id),
                          evts |-> NoEvts]
    /\ UNCHANGED <<rooms, roomObjs, peers, transports, producers, users,
                   sioRooms, conn, joins>>
    /\ UNCHANGED clientVars
    /\ UNCHANGED <<announcedIp, server>>

\* socket.on('resumeConsumer'): the consumer is looked up in the global store
\* by the id alone; the engine rejects the resume of a closed consumer.
\* Nothing but the callback follows the await, so the handler is one step.
ResumeConsumer(p, c, fails) ==
    /\ CanRequest(p)
    /\ IF c \notin DOMAIN consumers
       THEN /\ out' = [resp |-> Reply(p, "resumeConsumer", c, FALSE,
                                      "NotFound", 0),
                       evts |-> NoEvts]
            /\ UNCHANGED consumers
       ELSE IF fails \/ consumers[c].closed
       THEN /\ out' = [resp |-> Reply(p, "resumeConsumer", c, FALSE,
                                      "Internal", 0),
                       evts |-> NoEvts]
            /\ UNCHANGED consumers
       ELSE /\ consumers' = [consumers EXCEPT ![c].paused = FALSE]
            /\ out' = [resp |-> Reply(p, "resumeConsumer", c, TRUE, "none", 0),
                       evts |-> NoEvts]
    /\ UNCHANGED <<rooms, roomObjs, peers, transports, producers, users,
                   sioRooms, conn, peerObj, pend, joins>>
    /\ UNCHANGED clientVars
    /\ UNCHANGED <<announcedIp, server>>

\* A lookup that finds a recording under every id.
RecordingFoundAlways(o, pr) == TRUE

\* room.recordings.get(producerId) of the room object o.
RecordingFound(o, pr) == pr \in roomObjs[o].recordings

\* socket.on('stopRecording'): room.recordings of the handler's room.
StopRecording(p, pr) ==
    /\ CanRequest(p)
    /\ LET o == conn[p].room
       IN IF RecordingFound(o, pr)
          THEN /\ roomObjs' = [roomObjs EXCEPT ![o].recordings = @ \ {pr}]
               /\ out' = [resp |-> Reply(p, "stopRecording", pr, TRUE, "none", 0),
                          evts |-> NoEvts]
          ELSE /\ out' = [resp |-> Reply(p, "stopRecording", pr, FALSE,
                                         "NotFound", 0),
                          evts |-> NoEvts]
               /\ UNCHANGED roomObjs
    /\ UNCHANGED <<rooms, peers, transports, producers, consumers, users,
                   sioRooms, conn, peerObj, pend, joins>>
    /\ UNCHANGED clientVars
    /\ UNCHANGED <<announcedIp, server>>

\* transport.on('dtlsstatechange') with 'closed' (the client closed its side
\* of a connected transport): transport.close().
DtlsClosed(t) ==
    /\ t \in DOMAIN transports
    /\ transports[t].state = "connected"
    /\ transports' = ClosedTransports({t})
    /\ producers' = ClosedProducers({t})
    /\ consumers' = ClosedConsumers({t})
    /\ out' = NoOut
    /\ UNCHANGED <<rooms, roomObjs, peers, users, sioRooms, conn, peerObj,
                   pend, joins>>
    /\ UNCHANGED clientVars
    /\ UNCHANGED <<announcedIp, server>>

\* The media-path registry: the peers of the rooms 1..MediaRooms and every
\* request that creates, uses or closes a transport, producer or consumer.
Next ==
    \/ \E f \in BOOLEAN : Start(f)
    \/ \E p \in Peers, r \in 1..MediaRooms : Connect(p, r)
    \/ \E p \in Peers : CreateRoomDone(p)
    \/ \E p \in Peers : Disconnect(p)
    \/ \E p \in Peers, op \in CallbackOps : RequestBeforeHandlers(p, op)
    \/ \E p \in Peers : GetRouterRtpCapabilities(p)
    \/ \E p \in Peers, s \in BOOLEAN : CreateWebRtcTransport(p, s)
    \/ \E p \in Peers, f \in BOOLEAN : CreateWebRtcTransportDone(p, f)
    \/ \E p \in Peers, t \in 1..MaxTransports, f \in BOOLEAN :
          ConnectWebRtcTransport(p, t, f)
    \/ \E p \in Peers, t \in 1..MaxTransports, k \in Kinds : Produce(p, t, k)
    \/ \E p \in Peers, f \in BOOLEAN, g \in BOOLEAN : ProduceDone(p, f, g)
    \/ \E p \in Peers, i \in 1..MaxProducers, c \in BOOLEAN : Consume(p, i, c)
    \/ \E p \in Peers, f \in BOOLEAN : ConsumeDone(p, f)
    \/ \E p \in Peers, c \in 1..MaxConsumers, f \in BOOLEAN :
          ResumeConsumer(p, c, f)
    \/ \E p \in Peers, i \in 1..MaxProducers : StopRecording(p, i)
    \/ \E t \in 1..MaxTransports : DtlsClosed(t)

Spec == Init /\ [][Next]_vars

\* The room registry: the peers of every room, their user records and their
\* transports, with any payload in joinRoom.
NextRooms ==
    \/ \E f \in BOOLEAN : Start(f)
    \/ \E p \in Peers, r \in RoomIds : Connect(p, r)
    \/ \E p \in Peers : CreateRoomDone(p)
    \/ \E p \in Peers : Disconnect(p)
    \/ \E p \in Peers, op \in CallbackOps : RequestBeforeHandlers(p, op)
    \/ \E p \in Peers : GetRouterRtpCapabilities(p)
    \/ \E p \in Peers, u \in Peers, r \in RoomIds : JoinRoom(p, u, r)
    \/ \E p \in Peers, s \in BOOLEAN : CreateWebRtcTransport(p, s)
    \/ \E p \in Peers, f \in BOOLEAN : CreateWebRtcTransportDone(p, f)
    \/ \E p \in Peers, t \in 1..MaxTransports, f \in BOOLEAN :
          ConnectWebRtcTransport(p, t, f)

SpecRooms == Init /\ [][NextRooms]_vars

\* The speaking handler with any payload, next to the connection handler
\* and joinRoom.
NextSpeaking ==
    \/ \E f \in BOOLEAN : Start(f)
    \/ \E p \in Peers, r \in RoomIds : Connect(p, r)
    \/ \E p \in Peers : CreateRoomDone(p)
    \/ \E p \in Peers : Disconnect(p)
    \/ \E p \in Peers, u \in Peers, r \in RoomIds : JoinRoom(p, u, r)
    \/ \E p \in Peers, u \in Peers, r \in RoomIds, v \in BOOLEAN :
          Speaking(p, r, u, v)

SpecSpeaking == Init /\ [][NextSpeaking]_vars

(***************************************************************************)
(* The room view (VoiceRoom.tsx) on top of the server.                     *)
(***************************************************************************)

\* The users state after one event of the socket listeners.
OnEvent(v, e) ==
    CASE e.type = "users" ->
           [u \in Peers |->
              IF [id |-> u, isSpeaking |-> TRUE] \in e.list THEN "speaking"
              ELSE IF [id |-> u, isSpeaking |-> FALSE] \in e.list THEN "quiet"
              ELSE "absent"]
      [] e.type = "userJoined" ->
           [v EXCEPT ![e.peer] = IF @ = "absent" THEN "quiet" ELSE @]
      [] e.type = "userLeft" -> [v EXCEPT ![e.peer] = "absent"]
      [] e.type = "userSpeaking" ->
           [v EXCEPT ![e.peer] = IF @ = "absent" THEN @ ELSE e.kind]
      [] OTHER -> v

RECURSIVE OnEvents(_, _)
OnEvents(v, E) ==
    IF E = {} THEN v
    ELSE LET e == CHOOSE x \in E : \A y \in E : x.type = "userLeft" => y.type = "userLeft"
         IN OnEvents(OnEvent(v, e), E \ {e})

\* The events of the last step that are on their way to connection q.
Sent(o, q) == {x[2] : x \in {y \in DOMAIN o.evts : y[1] = q}}
InFlight(q) == Sent(out, q)

\* The producers of the newProducer events in E.
Producers(E) == {e.id : e \in {x \in E : x.type = "newProducer"}}

\* The listeners of connection q run on the events sent to it.
Deliver(q) ==
    /\ InFlight(q) # {}
    /\ view' = [view EXCEPT ![q] = OnEvents(@, InFlight(q))]
    /\ known' = [known EXCEPT ![q] = @ \cup Producers(InFlight(q))]
    /\ out' = [out EXCEPT !.evts =
                  [x \in {y \in DOMAIN out.evts : y[1] # q} |-> out.evts[x]]]
    /\ UNCHANGED <<rooms, roomObjs, peers, transports, producers, consumers,
                   users, sioRooms, conn, peerObj, pend, joins, cli, mic,
                   calls>>
    /\ UNCHANGED <<announcedIp, server>>

\* Every event sent has reached its listener: socket.io delivers the events
\* of a connection in the order they were sent, so the listeners of a
\* connection have run on a step's events before those of a later step.
Delivered == out.evts = NoEvts

\* Clients that send their own ids, as VoiceRoom and MediasoupClient do:
\* joinRoom{userId, roomId} and speaking{roomId, peerId, speaking} carry the
\* ids of the handshake.
NextVoiceRoom ==
    \/ \E f \in BOOLEAN : Start(f)
    \/ \E p \in Peers, r \in RoomIds : Delivered /\ Connect(p, r)
    \/ \E p \in Peers : Delivered /\ CreateRoomDone(p)
    \/ \E p \in Peers : Delivered /\ Disconnect(p)
    \/ \E p \in Peers : Delivered /\ JoinRoom(p, p, conn[p].roomId)
    \/ \E p \in Peers, v \in BOOLEAN :
          Delivered /\ Speaking(p, conn[p].roomId, p, v)
    \/ \E q \in Peers : Deliver(q)

SpecVoiceRoom == Init /\ [][NextVoiceRoom]_vars

\* Peers that come and go in one room and produce audio on transports of
\* their own; every event reaches its listener before the server goes on.
NextAnnounce ==
    \/ \E f \in BOOLEAN : Start(f)
    \/ \E p \in Peers : Delivered /\ Connect(p, 1)
    \/ \E p \in Peers : Delivered /\ CreateRoomDone(p)
    \/ \E p \in Peers : Delivered /\ Disconnect(p)
    \/ \E p \in Peers : Delivered /\ CreateWebRtcTransport(p, TRUE)
    \/ \E p \in Peers : Delivered /\ CreateWebRtcTransportDone(p, FALSE)
    \/ \E p \in Peers, t \in 1..MaxTransports :
          /\ Delivered
          /\ t \in DOMAIN transports
          /\ transports[t].owner = p
          /\ Produce(p, t, "audio")
    \/ \E p \in Peers : Delivered /\ ProduceDone(p, FALSE, FALSE)
    \/ \E q \in Peers : Deliver(q)

SpecAnnounce == Init /\ [][NextAnnounce]_vars

(***************************************************************************)
(* The client (mediasoupClient.ts): the producer and its audio level       *)
(* detection.                                                              *)
(***************************************************************************)

\* resolve(...) or reject(...) of the fetch: the first one settles it.
Call(op, arg) == [op |-> op, arg |-> arg]

\* The requests of c that are not in b: what a step that led from b to c
\* emitted while connect() and initializeRoom went on.
ConnectCalls(b, c) ==
    (IF (c.pc = "send" /\ b.pc # "send") \/ (c.pc = "recv" /\ b.pc # "recv")
     THEN <<Call("createWebRtcTransport", 0)>> ELSE <<>>)
    \o (IF c.joinSent /\ ~b.joinSent THEN <<Call("joinRoom", 0)>> ELSE <<>>)

Settle(c, how) == IF c.fetch = "pending" THEN [c EXCEPT !.fetch = how] ELSE c

\* clearTimeout(timeout).
ClearTimeout(c) == IF c.timer = "armed" THEN [c EXCEPT !.timer = "cleared"] ELSE c

\* connect() returns `result`, and initializeRoom, which does not read it,
\* goes on: setIsConnected(true) and socket.emit('joinRoom', ...).
ConnectReturns(c, result) ==
    [c EXCEPT !.pc = IF result THEN "done" ELSE "failed",
              !.isConnected = result,
              !.viewConnected = TRUE,
              !.joinSent = TRUE]

\* initializeRoom up to the first request: the client is constructed,
\* connect() calls loadRouterRtpCapabilities, which arms the timeout and
\* makes attempt 1.
InitializeRoom ==
    /\ cli.pc = "init"
    /\ cli' = [cli EXCEPT !.pc = "caps", !.fetch = "pending",
                          !.timer = "armed", !.attempts = 1,
                          !.phase = "inflight"]
    /\ calls' = <<Call("getRouterRtpCapabilities", 0)>>
    /\ UNCHANGED notCli

\* The callback of a getRouterRtpCapabilities request runs.
CapabilitiesResponse(response) ==
    /\ cli.phase = "inflight"
    /\ cli.socketOpen
    /\ calls' = NoCalls
    /\ cli' =
         CASE response = "result" ->
                Settle(ClearTimeout([cli EXCEPT !.phase = "none"]), "resolved")
           [] response = "error" ->
                IF cli.attempts < maxAttempts
                THEN ClearTimeout([cli EXCEPT !.phase = "backoff"])
                ELSE Settle(ClearTimeout([cli EXCEPT !.phase = "none"]),
                            "rejected")
           [] response = "empty" ->
                IF cli.attempts < maxAttempts
                THEN [cli EXCEPT !.phase = "backoff"]
                ELSE Settle(ClearTimeout([cli EXCEPT !.phase = "none"]),
                            "rejected")
    /\ UNCHANGED notCli

\* setTimeout(attemptGetCapabilities, 1000) fires: the next attempt.
RetryFires ==
    /\ cli.phase = "backoff"
    /\ cli' = [cli EXCEPT !.attempts = @ + 1, !.phase = "inflight"]
    /\ calls' = <<Call("getRouterRtpCapabilities", 0)>>
    /\ UNCHANGED notCli

\* The 20 s timeout fires, if it has not been cleared.
TimeoutFires ==
    /\ cli.timer = "armed"
    /\ cli' = Settle([cli EXCEPT !.timer = "fired"], "rejected")
    /\ calls' = NoCalls
    /\ UNCHANGED notCli

\* connect() after await this.loadRouterRtpCapabilities().
CapabilitiesLoaded ==
    /\ cli.pc = "caps"
    /\ cli.fetch \in {"resolved", "rejected"}
    /\ cli' = IF cli.fetch = "resolved" THEN [cli EXCEPT !.pc = "load"]
              ELSE ConnectReturns(cli, FALSE)
    /\ calls' = ConnectCalls(cli, cli')
    /\ UNCHANGED notCli

\* connect() after await this.device.load(...): createTransport('send')
\* sends createWebRtcTransport.
DeviceLoaded(ok) ==
    /\ cli.pc = "load"
    /\ cli' = IF ok THEN [cli EXCEPT !.pc = "send"]
              ELSE ConnectReturns(cli, FALSE)
    /\ calls' = ConnectCalls(cli, cli')
    /\ UNCHANGED notCli

\* The callback of a createWebRtcTransport request runs: the send transport
\* and then the receive transport, and this.isConnected = true.
TransportResponse(ok) ==
    /\ cli.pc \in {"send", "recv"}
    /\ cli.socketOpen
    /\ cli' = IF ~ok THEN ConnectReturns(cli, FALSE)
              ELSE IF cli.pc = "send"
              THEN [cli EXCEPT !.sendTransport = TRUE, !.pc = "recv"]
              ELSE ConnectReturns([cli EXCEPT !.recvTransport = TRUE], TRUE)
    /\ calls' = ConnectCalls(cli, cli')
    /\ UNCHANGED notCli

\* The guard of produce() and of consume().
CanUse(op) ==
    /\ cli.isConnected
    /\ IF op = "produce" THEN cli.sendTransport ELSE cli.recvTransport

\* produce() or consume() of a client that is not connected: 'Not connected
\* to MediaSoup' is thrown and caught, nothing is sent.
Refuse(op) ==
    /\ cli.pc # "init"
    /\ ~CanUse(op)
    /\ cli' = [cli EXCEPT !.refused = @ \cup {op}]
    /\ calls' = NoCalls
    /\ UNCHANGED notCli

\* consume() of a connected client: the consume request is sent.
ConsumeRequest ==
    /\ CanUse("consume")
    /\ cli' = [cli EXCEPT !.requested = @ \cup {"consume"}]
    /\ calls' = <<Call("consume", 0)>>
    /\ UNCHANGED notCli

\* produce(): the producer is created on the send transport and
\* setupAudioLevelDetection starts an interval with `let speaking = false`.
Unmute ==
    /\ CanUse("produce")
    /\ ~mic.producing
    /\ mic.unmutes < MaxUnmutes
    /\ mic' = [mic EXCEPT !.producing = TRUE, !.speaking = FALSE,
                          !.l0 = Len(mic.levels), !.s0 = Len(mic.sent),
                          !.unmutes = @ + 1,
                          !.isProducing = TRUE, !.isRecording = TRUE]
    /\ calls' = <<Call("produce", 0)>>
    /\ UNCHANGED notMic

\* A threshold the level itself passes.
IsSpeakingAtThreshold(decibels) == decibels >= speakingThreshold

\* const isSpeaking = decibels > this.speakingThreshold
IsSpeaking(decibels) == decibels > speakingThreshold

\* One tick of the interval: the level is thresholded and a speaking event
\* is emitted if the value differs from `speaking`.
Sample(decibels) ==
    /\ mic.producing
    /\ Len(mic.levels) < MaxSamples
    /\ LET isSpeaking == IsSpeaking(decibels)
       IN /\ mic' = [mic EXCEPT
                    !.levels = Append(@, decibels),
                    !.speaking = isSpeaking,
                    !.sent = IF isSpeaking # mic.speaking
                             THEN Append(@, isSpeaking) ELSE @]
          /\ calls' = IF isSpeaking # mic.speaking
                      THEN <<Call("speaking", IF isSpeaking THEN 1 ELSE 0)>>
                      ELSE NoCalls
    /\ UNCHANGED notMic

\* this.producer.id: the producers of a client are numbered as it makes them.
ProducerId(m) == m.unmutes

\* A stopProducing that leaves isRecording as it is.
StopProducingKeepsRecording(m) ==
    IF m.producing
    THEN [m EXCEPT !.producing = FALSE, !.sent = Append(@, FALSE),
                   !.isProducing = FALSE]
    ELSE m

\* The fields of the client after stopProducing(): with a producer, the
\* producer is dropped after speaking: false was emitted, whatever `speaking`
\* was; without one, nothing.
StopProducing(m) ==
    IF m.producing
    THEN [m EXCEPT !.producing = FALSE, !.sent = Append(@, FALSE),
                   !.isProducing = FALSE, !.isRecording = FALSE]
    ELSE m

\* What stopProducing() does on the way: stopRecording for the producer,
\* stopAudioLevelDetection, speaking: false, producer.close().
StopProducingCalls(m) ==
    <<Call("stopProducing", 0)>> \o
    (IF m.producing
     THEN <<Call("stopRecording", ProducerId(m)),
            Call("stopAudioLevelDetection", 0),
            Call("speaking", 0),
            Call("producer.close", ProducerId(m))>>
     ELSE <<>>)

\* toggleMicrophone with the microphone on: stopProducing() with a producer.
Mute ==
    /\ mic.producing
    /\ mic' = StopProducing(mic)
    /\ calls' = StopProducingCalls(mic)
    /\ UNCHANGED notMic

\* stopProducing() of a client that has no producer.
StopProducingIdle ==
    /\ cli.pc # "init"
    /\ ~mic.producing
    /\ mic' = StopProducing(mic)
    /\ calls' = StopProducingCalls(mic)
    /\ UNCHANGED notMic

\* producer.on('transportclose'): the detection is stopped and the producer
\* dropped; nothing is emitted.
ProducerTransportClose ==
    /\ mic.producing
    /\ mic' = [mic EXCEPT !.producing = FALSE, !.isProducing = FALSE,
                          !.isRecording = FALSE, !.leaked = 0]
    /\ calls' = <<Call("stopAudioLevelDetection", 0)>>
    /\ UNCHANGED notMic

\* A room view with any behaviour of the server towards its connect().
NextConnect ==
    \/ InitializeRoom
    \/ \E r \in Responses : CapabilitiesResponse(r)
    \/ RetryFires
    \/ TimeoutFires
    \/ CapabilitiesLoaded
    \/ \E ok \in BOOLEAN : DeviceLoaded(ok)
    \/ \E ok \in BOOLEAN : TransportResponse(ok)
    \/ \E op \in {"produce", "consume"} : Refuse(op)
    \/ ConsumeRequest
    \/ Unmute
    \/ Mute

SpecConnect == Init /\ [][NextConnect]_vars

\* The timers of the client fire: a delay that has been set and not cleared
\* runs out.  Nothing makes the server answer.
SpecConnectFair ==
    SpecConnect /\ WF_vars(TimeoutFires) /\ WF_vars(RetryFires)

\* A client whose connect() is answered at once and without an error, and
\* its microphone.
NextTracker ==
    \/ InitializeRoom
    \/ CapabilitiesResponse("result")
    \/ CapabilitiesLoaded
    \/ DeviceLoaded(TRUE)
    \/ TransportResponse(TRUE)
    \/ Unmute
    \/ \E l \in Levels : Sample(l)
    \/ Mute
    \/ ProducerTransportClose

SpecTracker == Init /\ [][NextTracker]_vars

(***************************************************************************)
(* The client (mediasoupClient.ts): consumers, the connect event of its    *)
(* transports, and the teardown of the room view.                          *)
(***************************************************************************)

\* this.peerId of the client.
ClientPeer == 1

\* A listener that asks for the kind alone.
WantsConsumeOfAnyPeer(peerId, kind) == kind = "audio"

\* The condition of the newProducer listener.
WantsConsume(peerId, kind) == peerId # ClientPeer /\ kind = "audio"

\* socket.on('newProducer') with consume(producerId) up to its request: a
\* client that has no receive transport or is not connected throws, catches
\* and sends nothing.  `peer` is the peer whose producer is asked for and
\* `appPeer` the appData.peerId of the consumer, once it is created.
OnNewProducer(peerId, producerId, kind) ==
    /\ cli.pc # "init"
    /\ cli.socketOpen
    /\ cli.seen < MaxAnnounced
    /\ LET c == [cli EXCEPT !.seen = @ + 1,
                            !.heard = [peer |-> peerId, producer |-> producerId,
                                       kind |-> kind]]
       IN IF WantsConsume(peerId, kind) /\ CanUse("consume")
          THEN /\ cli' = [c EXCEPT !.consuming =
                            Append(@, [producer |-> producerId,
                                       st |-> "requested",
                                       peer |-> peerId, appPeer |-> 0])]
               /\ calls' = <<Call("consume", producerId)>>
          ELSE /\ cli' = c
               /\ calls' = NoCalls
    /\ UNCHANGED notCli

\* A callback that resumes as soon as the server has answered.
OnConsumeResponseResumes(n, ok) ==
    /\ cli.socketOpen
    /\ n \in DOMAIN cli.consuming
    /\ cli.consuming[n].st = "requested"
    /\ cli' = [cli EXCEPT !.consuming[n].st = IF ok THEN "creating" ELSE "failed"]
    /\ calls' = IF ok THEN <<Call("resumeConsumer", n)>> ELSE NoCalls
    /\ UNCHANGED notCli

\* The callback of consume request n runs: on response.error the promise is
\* rejected, otherwise recvTransport.consume(...) is called and awaited.
OnConsumeResponse(n, ok) ==
    /\ cli.socketOpen
    /\ n \in DOMAIN cli.consuming
    /\ cli.consuming[n].st = "requested"
    /\ cli' = [cli EXCEPT !.consuming[n].st = IF ok THEN "creating" ELSE "failed"]
    /\ calls' = NoCalls
    /\ UNCHANGED notCli

\* ... and after await this.recvTransport.consume(...): the consumer is
\* stored under its id and resumeConsumer is emitted, or the catch rejects.
\* The local consumer needs the receive transport, open and told that it
\* is connected; the consumer of request n has the id n.
ConsumerCreated(n, ok) ==
    /\ n \in DOMAIN cli.consuming
    /\ cli.consuming[n].st = "creating"
    /\ IF ok /\ cli.recvTransport /\ cli.tconn.recv.st = "ready"
       THEN /\ cli' = [cli EXCEPT !.consuming[n].st = "stored",
                                  !.consuming[n].appPeer = ClientPeer,
                                  !.consumers = @ \cup {n}]
            /\ calls' = <<Call("resumeConsumer", n)>>
       ELSE /\ cli' = [cli EXCEPT !.consuming[n].st = "failed"]
            /\ calls' = NoCalls
    /\ UNCHANGED notCli

\* The client creates its send transport first and its receive transport
\* second.
TransportId(direction) == IF direction = "send" THEN 1 ELSE 2

HasTransport(c, direction) ==
    IF direction = "send" THEN c.sendTransport ELSE c.recvTransport

\* transport.on('connect'): the library emits it when the first produce or
\* consume on the transport needs the connection, and again when an
\* earlier attempt was refused; the handler emits connectWebRtcTransport.
TransportConnectEvent(direction) ==
    /\ cli.socketOpen
    /\ HasTransport(cli, direction)
    /\ cli.tconn[direction].st \in {"new", "failed"}
    /\ cli.tconn[direction].events < MaxConnectEvents
    /\ cli' = [cli EXCEPT !.tconn[direction] =
                  [st |-> "requested", events |-> @.events + 1,
                   answer |-> "none"]]
    /\ calls' = <<Call("connectWebRtcTransport", TransportId(direction))>>
    /\ UNCHANGED notCli

\* A callback that calls callback() whatever the answer.
TransportConnectResponseIgnoresError(direction, error) ==
    /\ cli.socketOpen
    /\ cli.tconn[direction].st = "requested"
    /\ cli' = [cli EXCEPT !.tconn[direction].st = "ready",
                          !.tconn[direction].answer =
                             IF error THEN "error" ELSE "ok"]
    /\ calls' = <<Call("callback", TransportId(direction))>>
    /\ UNCHANGED notCli

\* The callback of the connectWebRtcTransport request runs: errback on
\* response.error, callback otherwise.
TransportConnectResponse(direction, error) ==
    /\ cli.socketOpen
    /\ cli.tconn[direction].st = "requested"
    /\ cli' = [cli EXCEPT !.tconn[direction].st =
                             IF error THEN "failed" ELSE "ready",
                          !.tconn[direction].answer =
                             IF error THEN "error" ELSE "ok"]
    /\ calls' = <<Call(IF error THEN "errback" ELSE "callback",
                       TransportId(direction))>>
    /\ UNCHANGED notCli

\* The loop of the peerDisconnected listener over this.consumers.
RECURSIVE ClosedCalls(_)
ClosedCalls(ids) ==
    IF ids = {} THEN <<>>
    ELSE LET i == CHOOSE x \in ids : \A y \in ids : x <= y
         IN <<Call("consumer.close", i)>> \o ClosedCalls(ids \ {i})

\* The consumers the peerDisconnected listener closes and deletes: those
\* whose appData.peerId is the peer of the event.
ConsumersOf(c, peerId) ==
    {n \in c.consumers : c.consuming[n].appPeer = peerId}

\* socket.on('peerDisconnected').
OnPeerDisconnected(peerId) ==
    /\ cli.pc # "init"
    /\ cli.socketOpen
    /\ cli' = [cli EXCEPT !.consumers = @ \ ConsumersOf(cli, peerId)]
    /\ calls' = <<Call("peerDisconnected", peerId)>>
                   \o ClosedCalls(ConsumersOf(cli, peerId))
    /\ UNCHANGED notCli

\* The loop of disconnect() over this.consumers, in the order of their ids.
RECURSIVE ConsumerCalls(_)
ConsumerCalls(ids) ==
    IF ids = {} THEN <<>>
    ELSE LET i == CHOOSE x \in ids : \A y \in ids : x <= y
         IN <<Call("cleanupAudioResources", i), Call("consumer.close", i)>>
            \o ConsumerCalls(ids \ {i})

\* What disconnect() does on the way: stopProducing(), the consumers, the
\* send transport and the receive transport.
ClientDisconnectCalls(c, m) ==
    <<Call("disconnect", 0)>> \o StopProducingCalls(m)
    \o ConsumerCalls(c.consumers)
    \o (IF c.sendTransport
        THEN <<Call("transport.close", TransportId("send"))>> ELSE <<>>)
    \o (IF c.recvTransport
        THEN <<Call("transport.close", TransportId("recv"))>> ELSE <<>>)

\* A disconnect() that leaves this.consumers as it is.
ClientDisconnectKeepsConsumers(c) ==
    [c EXCEPT !.sendTransport = FALSE, !.recvTransport = FALSE,
              !.isConnected = FALSE]

\* The fields of the client after disconnect().
ClientDisconnect(c) ==
    [c EXCEPT !.consumers = {}, !.sendTransport = FALSE,
              !.recvTransport = FALSE, !.isConnected = FALSE]

\* The cleanup of the room view's effect: mediasoupClient.disconnect() and
\* then socket.disconnect().  sendTransport.close() closes every producer
\* that is open on the transport.
Teardown ==
    /\ cli.pc # "init"
    /\ cli.socketOpen
    /\ mic' = [StopProducing(mic) EXCEPT !.leaked = 0]
    /\ cli' = [ClientDisconnect(cli) EXCEPT !.socketOpen = FALSE]
    /\ calls' = ClientDisconnectCalls(cli, mic)
                   \o <<Call("socket.disconnect", 0)>>
    /\ UNCHANGED <<serverVars, view, known>>

\* A room view and its client after connect(): the events and answers of
\* the server are any, the microphone is toggled when its transport is
\* connected, and the view is torn down once connect() has returned.
NextSession ==
    \/ InitializeRoom
    \/ CapabilitiesResponse("result")
    \/ CapabilitiesLoaded
    \/ DeviceLoaded(TRUE)
    \/ \E ok \in BOOLEAN : TransportResponse(ok)
    \/ \E p \in Peers, i \in 1..MaxAnnounced, k \in Kinds :
          OnNewProducer(p, i, k)
    \/ \E n \in 1..MaxAnnounced, ok \in BOOLEAN : OnConsumeResponse(n, ok)
    \/ \E n \in 1..MaxAnnounced, ok \in BOOLEAN : ConsumerCreated(n, ok)
    \/ \E d \in {"send", "recv"} : TransportConnectEvent(d)
    \/ \E d \in {"send", "recv"}, e \in BOOLEAN : TransportConnectResponse(d, e)
    \/ cli.tconn.send.st = "ready" /\ Unmute
    \/ Mute
    \/ StopProducingIdle
    \/ cli.pc \in {"done", "failed"} /\ Teardown

SpecSession == Init /\ [][NextSession]_vars

\* ... and the other peers of the room leave at any time.
NextPeers ==
    \/ NextSession
    \/ \E p \in Peers \ {ClientPeer} : OnPeerDisconnected(p)

SpecPeers == Init /\ [][NextPeers]_vars

(***************************************************************************)
(* The microphone button (VoiceRoom.tsx) and produce() step by step, and   *)
(* the loss of the signaling connection.                                   *)
(***************************************************************************)

\* toggleMicrophone with isMicOn false: produce() is called.  The button is
\* enabled as soon as the view is marked connected; isMicOn is set when
\* produce() has returned true.  A produce() that passes its guard awaits
\* getUserMedia.
ToggleOn ==
    /\ cli.socketOpen
    /\ cli.viewConnected
    /\ ~mic.isMicOn
    /\ mic.media + mic.making + mic.unmutes < MaxUnmutes
    /\ IF CanUse("produce")
       THEN /\ mic' = [mic EXCEPT !.media = @ + 1]
            /\ cli' = cli
       ELSE /\ mic' = mic
            /\ cli' = [cli EXCEPT !.refused = @ \cup {"produce"}]
    /\ calls' = NoCalls
    /\ UNCHANGED <<serverVars, view, known>>

\* getUserMedia settles: with a track, sendTransport.produce(...) is called
\* and awaited; a refusal, or a send transport that disconnect() has set to
\* null, ends produce() in its catch.
UserMedia(ok) ==
    /\ mic.media > 0
    /\ IF ok /\ cli.sendTransport
       THEN /\ mic' = [mic EXCEPT !.media = @ - 1, !.making = @ + 1]
            /\ calls' = <<Call("produce", 0)>>
       ELSE /\ mic' = [mic EXCEPT !.media = @ - 1]
            /\ calls' = NoCalls
    /\ UNCHANGED notMic

\* sendTransport.produce(...) settles.  On a transport that is still open
\* the producer is assigned to this.producer, the flags are set,
\* setupAudioLevelDetection assigns a new interval to
\* this.audioLevelInterval, and toggleMicrophone sets isMicOn; what
\* this.producer and this.audioLevelInterval held before is neither closed
\* nor cleared.
ProducerCreated(ok) ==
    /\ mic.making > 0
    /\ IF ok /\ cli.sendTransport
       THEN /\ mic' = [mic EXCEPT
                    !.making = @ - 1, !.producing = TRUE, !.speaking = FALSE,
                    !.l0 = Len(mic.levels), !.s0 = Len(mic.sent),
                    !.unmutes = @ + 1,
                    !.isProducing = TRUE, !.isRecording = TRUE,
                    !.isMicOn = TRUE,
                    !.leaked = IF mic.producing THEN @ + 1 ELSE @,
                    !.lost = IF mic.producing
                             THEN Append(@, mic.speaking) ELSE @]
            /\ calls' = <<Call("setupAudioLevelDetection", 0)>>
       ELSE /\ mic' = [mic EXCEPT !.making = @ - 1]
            /\ calls' = NoCalls
    /\ UNCHANGED notMic

\* toggleMicrophone with isMicOn true: stopProducing() and the flag.
ToggleOff ==
    /\ cli.socketOpen
    /\ mic.isMicOn
    /\ mic' = [StopProducing(mic) EXCEPT !.isMicOn = FALSE]
    /\ calls' = StopProducingCalls(mic)
    /\ UNCHANGED notMic

\* One tick of an interval that is no longer in this.audioLevelInterval: it
\* returns at once while this.audioAnalyser is null, and otherwise
\* thresholds the level against its own `speaking`.
LostSample(i, decibels) ==
    /\ i \in DOMAIN mic.lost
    /\ mic.producing
    /\ Len(mic.sent) < MaxSamples
    /\ IsSpeaking(decibels) # mic.lost[i]
    /\ mic' = [mic EXCEPT !.lost[i] = IsSpeaking(decibels),
                          !.sent = Append(@, IsSpeaking(decibels))]
    /\ calls' = <<Call("speaking", IF IsSpeaking(decibels) THEN 1 ELSE 0)>>
    /\ UNCHANGED notMic

\* socket.on('disconnect') of the room view: the connection to the server
\* is lost.  The view reconnects by hand when the server closed it; the
\* client has no listener for it.
SocketDisconnected(reason) ==
    /\ cli.pc # "init"
    /\ cli.socketOpen
    /\ cli.link = "up"
    /\ cli' = [cli EXCEPT !.link = "down"]
    /\ calls' = IF reason = "io server disconnect"
                THEN <<Call("socket.connect", 0)>> ELSE NoCalls
    /\ UNCHANGED notCli

\* socket.on('connect') after a loss: the handler logs.
SocketConnected ==
    /\ cli.socketOpen
    /\ cli.link = "down"
    /\ cli' = [cli EXCEPT !.link = "up"]
    /\ calls' = NoCalls
    /\ UNCHANGED notCli

\* The levels on either side of the threshold.
ClearLevels == {-60, -40}

\* A room view whose connect() is answered at once and without an error,
\* its microphone button, its socket and its teardown.
NextMicrophone ==
    \/ InitializeRoom
    \/ CapabilitiesResponse("result")
    \/ CapabilitiesLoaded
    \/ DeviceLoaded(TRUE)
    \/ TransportResponse(TRUE)
    \/ ToggleOn
    \/ \E ok \in BOOLEAN : UserMedia(ok)
    \/ \E ok \in BOOLEAN : ProducerCreated(ok)
    \/ ToggleOff
    \/ \E l \in ClearLevels : Sample(l)
    \/ \E i \in 1..MaxUnmutes, l \in ClearLevels : LostSample(i, l)
    \/ ProducerTransportClose
    \/ \E r \in {"io server disconnect", "transport close"} :
          SocketDisconnected(r)
    \/ SocketConnected
    \/ cli.pc \in {"done", "failed"} /\ Teardown

SpecMicrophone == Init /\ [][NextMicrophone]_vars

\* A room view that is torn down at any time after initializeRoom has
\* started, with any behaviour of the server towards its connect(): the
\* cleanup clears no timer, and the callbacks of the requests do not run
\* once the socket is closed.
NextTeardown ==
    \/ InitializeRoom
    \/ \E r \in Responses : CapabilitiesResponse(r)
    \/ RetryFires
    \/ TimeoutFires
    \/ CapabilitiesLoaded
    \/ \E ok \in BOOLEAN : DeviceLoaded(ok)
    \/ \E ok \in BOOLEAN : TransportResponse(ok)
    \/ Teardown

SpecTeardown == Init /\ [][NextTeardown]_vars

(***************************************************************************)
(* Properties.                                                             *)
(***************************************************************************)

\* The connections that have joined room r and are still connected.
Members(r) ==
    {q \in Peers : conn[q].st = "open" /\ conn[q].live /\ conn[q].roomId = r}

\* The client creates its send transport first and its receive transport
\* second, so the first entry of peer.transports is the send transport.
IsSendTransport(t) ==
    Head(peerObj[transports[t].owner].transports) = t

NewProducerEvent(p, id) == Event("newProducer", p, id, producers[id].kind, {})

\* C1: peers connected under the same room id are members of one and the
\* same Room object, and one Room object at most has members under that id,
\* also when their connection handlers raced on an unknown id.
C1_OneRoomPerId ==
    /\ \A p, q \in Peers :
          (p \in Members(conn[q].roomId) /\ q \in Members(conn[p].roomId))
             => conn[p].room = conn[q].room
    /\ \A r \in RoomIds :
          Cardinality({o \in Peers : roomObjs[o].id = r
                                     /\ roomObjs[o].peers # {}}) <= 1

\* C2: a room whose member set has become empty is out of the registry, its
\* router is released and no transport, producer, consumer or recording of
\* the room is retained.
C2_EmptyRoomReleased ==
    \A o \in Peers :
       (roomObjs[o].id # 0 /\ roomObjs[o].peers = {}) =>
          /\ rooms[roomObjs[o].id] # o
          /\ roomObjs[o].router # "open"
          /\ roomObjs[o].recordings = {}
          /\ \A t \in DOMAIN transports : transports[t].router # o
          /\ \A i \in DOMAIN producers :
                transports[producers[i].transport].router # o
          /\ \A c \in DOMAIN consumers :
                transports[consumers[c].transport].router # o

\* C3: the callback of a request is invoked exactly once: no request is
\* dropped unanswered and no callback is invoked twice.
C3_AnsweredExactlyOnce ==
    out.resp.op \in CallbackOps => (out.resp.acks = 1 /\ ~out.resp.dropped)

\* C4: a successful produce of peer P delivers newProducer{P, producerId,
\* kind} exactly once to every connection that has joined P's room and is
\* connected when the producer is registered, P left out, and to no one
\* else; no other step delivers a newProducer.
C4_NewProducerFanOut ==
    IF out.resp.op = "produce" /\ out.resp.ok
    THEN LET p == out.resp.peer
             e == NewProducerEvent(p, out.resp.id)
             to == Members(conn[p].roomId) \ {p}
         IN /\ producers[out.resp.id].owner = p
            /\ DOMAIN out.evts = {<<q, e>> : q \in to}
            /\ \A q \in to : out.evts[<<q, e>>] = 1
    ELSE \A x \in DOMAIN out.evts : x[2].type # "newProducer"

C4_Witness ==
    /\ out.resp.op = "produce" /\ out.resp.ok
    /\ out.evts # NoEvts

\* C5: a consume succeeds only if the producer's transport and the transport
\* the consumer is attached to have completed connectWebRtcTransport.
C5_ConsumeNeedsConnected ==
    (out.resp.op = "consume" /\ out.resp.ok) =>
       /\ transports[consumers[out.resp.id].transport].state = "connected"
       /\ transports[producers[out.resp.arg].transport].state = "connected"

\* C6: a consumer is created paused, and a paused consumer becomes active
\* only in the step of a successful resumeConsumer on its id.
C6_PausedFirst ==
    [][\A c \in DOMAIN consumers' :
          /\ c \notin DOMAIN consumers => consumers'[c].paused
          /\ (c \in DOMAIN consumers /\ consumers[c].paused
                /\ ~consumers'[c].paused)
             => (out'.resp.op = "resumeConsumer" /\ out'.resp.arg = c
                   /\ out'.resp.ok)]_vars

C6_Witness ==
    \E c \in DOMAIN consumers : ~consumers[c].paused /\ ~consumers[c].closed

\* C7: a produce succeeds only on a connected transport that is the
\* requesting peer's own send transport; a refused produce sends no
\* newProducer.
C7_ProduceNeedsOwnSendTransport ==
    /\ (out.resp.op = "produce" /\ out.resp.ok) =>
          /\ transports[out.resp.arg].state = "connected"
          /\ transports[out.resp.arg].owner = out.resp.peer
          /\ IsSendTransport(out.resp.arg)
    /\ (out.resp.op = "produce" /\ ~out.resp.ok) => out.evts = NoEvts

\* C8: the consumer created for a peer that holds a send and a receive
\* transport, on another peer's producer, is attached to the receive
\* transport, never to the send one.
C8_ConsumerOnRecvTransport ==
    (out.resp.op = "consume" /\ out.resp.ok) =>
       LET p == out.resp.peer
           ct == consumers[out.resp.id].transport
       IN (Len(peerObj[p].transports) >= 2
             /\ producers[out.resp.arg].owner # p) =>
             /\ ct = peerObj[p].transports[2]
             /\ ~IsSendTransport(ct)

\* C9: once a peer's connection has closed, its transports are closed, it is
\* a member of no room, it is out of the peer store and its user record is
\* deleted.
C9_DisconnectCleansUp ==
    \A p \in Peers :
       (conn[p].st # "idle" /\ ~conn[p].live /\ pend[p] = NoPend
          /\ conn[p].st # "awaiting") =>
          /\ \A t \in DOMAIN transports :
                transports[t].owner = p => transports[t].state = "closed"
          /\ \A o \in Peers : p \notin roomObjs[o].peers
          /\ p \notin peers
          /\ users[p] = NoUser

\* C10: when peer A disconnects while peer B holds a consumer on the
\* producer A made on its own transport, B gets exactly one peerDisconnected
\* and one userLeft for A and the consumer is closed; a later resumeConsumer
\* on that consumer is answered with NotFound.
C10_DisconnectClosesConsumer ==
    [][\A c \in DOMAIN consumers :
          LET pr == producers[consumers[c].producer]
              a == pr.owner
              b == consumers[c].owner
          IN (transports[pr.transport].owner = a /\ a # b /\ conn[b].live)
             => /\ (conn[a].st = "open" /\ conn'[a].st = "closed") =>
                      /\ consumers'[c].closed
                      /\ Count(out'.evts, <<b, Event("peerDisconnected", a, 0,
                                                     "none", {})>>) = 1
                      /\ Count(out'.evts, <<b, Event("userLeft", a, 0,
                                                     "none", {})>>) = 1
                /\ (conn[a].st = "closed" /\ out'.resp.op = "resumeConsumer"
                      /\ out'.resp.arg = c)
                   => (~out'.resp.ok /\ out'.resp.err = "NotFound")]_vars

\* The levels the running detection has sampled and the events it emitted.
TrackerLevels == SubSeq(mic.levels, mic.l0 + 1, Len(mic.levels))
TrackerEvents == SubSeq(mic.sent, mic.s0 + 1, Len(mic.sent))

\* The changes of the value `level > -50` along a sequence of levels, from
\* the value `was`.
RECURSIVE Changes(_, _)
Changes(levels, was) ==
    IF levels = <<>> THEN <<>>
    ELSE LET now == Head(levels) > -50
         IN (IF now # was THEN <<now>> ELSE <<>>) \o Changes(Tail(levels), now)

\* C11: the speaking tracker, started not speaking and fed a sequence of
\* levels against the threshold -50, has emitted one speaking event per
\* change of the value `level > -50` and no other; fed -60, -60, -40, -40,
\* -60 it has emitted speaking=true and then speaking=false, and no more.
C11_SpeakingTracker ==
    mic.producing =>
       /\ TrackerEvents = Changes(TrackerLevels, FALSE)
       /\ TrackerLevels = <<-60, -60, -40, -40, -60>>
             => TrackerEvents = <<TRUE, FALSE>>

C11_Witness ==
    mic.producing /\ TrackerLevels = <<-60, -60, -40, -40, -60>>
\* C12: a client sends a speaking event only when its speaking state
\* changes: the first event it sends carries speaking=true and no two
\* consecutive events carry the same value.
C12_SpeakingOnTransition ==
    /\ mic.sent # <<>> => mic.sent[1]
    /\ \A i \in 1..(Len(mic.sent) - 1) : mic.sent[i] # mic.sent[i + 1]
UserSpeakingEvent(peerId, speaking) ==
    Event("userSpeaking", peerId, 0, IF speaking THEN "speaking" ELSE "quiet", {})

Joined(p) == conn[p].st = "open" /\ conn[p].live /\ users[p] # NoUser

\* C14: with alice and bob both joined to one room, every speaking event of
\* alice is delivered to bob once, as userSpeaking(alice, value), in the
\* step that serves it (so in the order sent), and when bob's listener has
\* run on it bob's view of alice shows that value: after speaking=true and
\* then speaking=false, it does not show alice speaking.
C14_SpeakingObservedInOrder ==
    [][\A a, b \in Peers :
          (a # b /\ Joined(a) /\ Joined(b) /\ conn[a].roomId = conn[b].roomId) =>
             /\ (Delivered /\ out'.resp.op = "speaking" /\ out'.resp.peer = a) =>
                   /\ Count(out'.evts, <<b, UserSpeakingEvent(a, out'.resp.ok)>>) = 1
                   /\ InFlight(b)' = {UserSpeakingEvent(a, out'.resp.ok)}
             /\ \A v \in BOOLEAN :
                   (UserSpeakingEvent(a, v) \in InFlight(b) /\ InFlight(b)' = {}) =>
                      /\ view'[b][a] \in {"absent", UserSpeakingEvent(a, v).kind}
                      /\ view[b][a] # "absent" => view'[b][a] # "absent"]_vars

C14_Witness ==
    \E a, b \in Peers :
       /\ a # b /\ Joined(a) /\ Joined(b) /\ conn[a].roomId = conn[b].roomId
       /\ out.resp.op = "speaking" /\ out.resp.peer = a /\ ~out.resp.ok
       /\ Delivered
       /\ view[b][a] = "quiet" /\ view[a][b] = "speaking"
C16_FetchTerminates ==
    /\ [](cli.attempts <= 3)
    /\ (cli.fetch = "pending") ~> (cli.fetch \in {"resolved", "rejected"})

\* C17: when connect() has failed, in the capability fetch or in a later
\* step, the room view is not marked connected, no joinRoom has been sent,
\* and produce and consume are refused: the client is not connected, has
\* no producer and has sent no consume.
C17_FailureStopsSession ==
    cli.pc = "failed" =>
       /\ ~cli.viewConnected
       /\ ~cli.joinSent
       /\ ~cli.isConnected
       /\ ~mic.producing
       /\ "consume" \notin cli.requested
\* C18: with no static announced address configured, every transport
\* announces the address of the signaling connection of the peer that
\* asked for it, not that of an earlier requester.
C18_AnnouncedIpOfRequester ==
    \A t \in DOMAIN transports :
       transports[t].announcedIp = ClientIp(transports[t].owner)
C20_JoinRoomSnapshot ==
    [][(Delivered /\ out'.resp.op = "joinRoom") =>
          LET p == out'.resp.peer
              others == Members(conn[p].roomId) \ {p}
              list == {users'[u] : u \in {q \in Members(conn[p].roomId) :
                                            users'[q] # NoUser}}
          IN /\ users'[p] # NoUser
             /\ Sent(out', p) = {Event("users", 0, 0, "none", list)}
             /\ Count(out'.evts, <<p, Event("users", 0, 0, "none", list)>>) = 1
             /\ \A q \in others :
                   /\ Sent(out', q) = {Event("userJoined", p, 0, "none", {})}
                   /\ Count(out'.evts,
                            <<q, Event("userJoined", p, 0, "none", {})>>) = 1
             /\ \A x \in DOMAIN out'.evts : x[1] \in others \cup {p}]_vars

(***************************************************************************)
(* Recordings, failures and the status surface.                            *)
(***************************************************************************)

\* The producer ids with a live recording, in whatever room object.
Recordings == UNION {roomObjs[o].recordings : o \in Peers}

\* Everything a handler can change besides its answer.
stores == <<rooms, roomObjs, peers, transports, producers, consumers, users,
            sioRooms, conn, peerObj, pend, joins, announcedIp>>

C22_FailureIsAnErrorAnswer ==
    [][(out'.resp.op \in CallbackOps /\ ~out'.resp.dropped
          /\ out'.resp.err # "none")
         => /\ ~out'.resp.ok
            /\ out'.resp.acks = 1
            /\ out'.evts = NoEvts
            /\ UNCHANGED <<rooms, roomObjs, transports, producers, consumers,
                           peerObj>>
      ]_vars

\* GET /status: the keys of rooms, rooms.size and peers.size.
Status ==
    [rooms |-> {r \in RoomIds : rooms[r] # 0},
     roomCount |-> Cardinality({r \in RoomIds : rooms[r] # 0}),
     peerCount |-> Cardinality(peers)]

\* GET /rooms/:roomId: 404 when rooms.get(roomId) finds nothing, otherwise
\* the size and the keys of room.peers of the object found.
RoomStatus(r) ==
    IF rooms[r] = 0 THEN [found |-> FALSE, peerCount |-> 0, peers |-> {}]
    ELSE [found |-> TRUE,
          peerCount |-> Cardinality(roomObjs[rooms[r]].peers),
          peers |-> roomObjs[rooms[r]].peers]

\* C23: in every state the room lookup finds a room id exactly when a
\* connected peer has joined under it, the member count it reports is the
\* number of those peers, and the global peer count is the number of
\* connected peers that have joined any room.
C23_StatusMatchesMembership ==
    /\ \A r \in RoomIds :
          /\ RoomStatus(r).found <=> Members(r) # {}
          /\ RoomStatus(r).peerCount = Cardinality(Members(r))
    /\ Status.peerCount = Cardinality(UNION {Members(r) : r \in RoomIds})

(***************************************************************************)
(* Mute and unmute of a client that follows mediasoupClient.ts.            *)
(***************************************************************************)

\* The media path with clients that send what MediasoupClient sends: audio
\* on a transport of their own, their own capabilities, and on mute
\* (stopProducing) stopRecording for their own producer followed by
\* speaking=false.
NextMute ==
    \/ \E f \in BOOLEAN : Start(f)
    \/ \E p \in Peers : Connect(p, 1)
    \/ \E p \in Peers : CreateRoomDone(p)
    \/ \E p \in Peers : Disconnect(p)
    \/ \E p \in Peers, s \in BOOLEAN : CreateWebRtcTransport(p, s)
    \/ \E p \in Peers, f \in BOOLEAN : CreateWebRtcTransportDone(p, f)
    \/ \E p \in Peers, t \in 1..MaxTransports, f \in BOOLEAN :
          /\ t \in SeqToSet(peerObj[p].transports)
          /\ ConnectWebRtcTransport(p, t, f)
    \/ \E p \in Peers, t \in 1..MaxTransports :
          /\ t \in SeqToSet(peerObj[p].transports)
          /\ Produce(p, t, "audio")
    \/ \E p \in Peers, f \in BOOLEAN : ProduceDone(p, f, FALSE)
    \/ \E p \in Peers, i \in 1..MaxProducers :
          /\ i \in DOMAIN producers
          /\ producers[i].owner # p
          /\ Consume(p, i, TRUE)
    \/ \E p \in Peers, f \in BOOLEAN : ConsumeDone(p, f)
    \/ \E p \in Peers, i \in 1..MaxProducers :
          /\ i \in peerObj[p].producers
          /\ StopRecording(p, i)
    \/ \E p \in Peers : Speaking(p, conn[p].roomId, p, FALSE)

SpecMute == Init /\ [][NextMute]_vars

\* The owner's client has muted producer pr: every produce of SpecMute that
\* succeeds starts a recording, and only the stopRecording that
\* stopProducing sends for its own producer removes it.
Muted(pr) == pr \in DOMAIN producers /\ pr \notin Recordings

\* C24: once its owner's client has muted a producer, the server holds the
\* producer no longer (it is closed), and no consume on its id is answered
\* with success afterwards.
C24_MuteDestroysProducer ==
    [][\A pr \in DOMAIN producers :
          Muted(pr) =>
             /\ producers[pr].closed
             /\ ~(out'.resp.op = "consume" /\ out'.resp.ok
                    /\ out'.resp.arg = pr)
      ]_vars

(***************************************************************************)
(* Startup.                                                                *)
(***************************************************************************)

\* The room registry from the start of the process to its exit.
NextStart ==
    \/ \E f \in BOOLEAN : Start(f)
    \/ WorkerDied
    \/ \E p \in Peers, r \in RoomIds : Connect(p, r)
    \/ \E p \in Peers : CreateRoomDone(p)
    \/ \E p \in Peers : Disconnect(p)
    \/ \E p \in Peers, op \in CallbackOps : RequestBeforeHandlers(p, op)
    \/ \E p \in Peers : JoinRoom(p, p, conn[p].roomId)

SpecStart == Init /\ [][NextStart]_vars

\* C25: the server listens, holds a connection or holds a room only while
\* its worker pool is not empty, and a start whose worker creation fails
\* ends in the exit of the process, not in listening.
C25_ListenAfterWorkers ==
    /\ [](/\ server.phase = "listening" => server.workers > 0
          /\ (\E p \in Peers : conn[p].st # "idle") => server.workers > 0
          /\ (\E o \in Peers : roomObjs[o] # NoRoom) => server.workers > 0
          /\ (\E r \in RoomIds : rooms[r] # 0) => server.workers > 0)
    /\ [][(server.phase = "starting" /\ server'.phase # "starting"
             /\ server'.workers = 0) => server'.phase = "exited"]_vars

\* The server has started, a connection was accepted and its room created.
C25_Witness ==
    /\ server.phase = "listening"
    /\ \E r \in RoomIds : rooms[r] # 0 /\ Members(r) # {}

(***************************************************************************)
(* The client's media session.                                             *)
(***************************************************************************)

\* The calls of a step that have the name op, in order.
Sends(c, op) == SelectSeq(c, LAMBDA x : x.op = op)

\* C26: a consume request is sent only by the newProducer listener, for the
\* producer of the event, and never when the event names the client's own
\* peer id; an event of another peer with kind audio that arrives while the
\* client is connected makes it send exactly one consume request.
C26_ConsumeOthersAudioOnce ==
    [][/\ Sends(calls', "consume") # <<>> =>
             /\ cli'.seen = cli.seen + 1
             /\ cli'.heard.peer # ClientPeer
             /\ cli'.heard.kind = "audio"
       /\ cli'.seen = cli.seen + 1 =>
             /\ cli'.heard.peer = ClientPeer => Sends(calls', "consume") = <<>>
             /\ (cli'.heard.peer # ClientPeer /\ cli'.heard.kind = "audio"
                   /\ cli.isConnected)
                  => Sends(calls', "consume")
                        = <<Call("consume", cli'.heard.producer)>>
      ]_vars

\* The listener has just sent its consume request for another peer's audio.
C26_Witness ==
    /\ cli.seen > 0
    /\ cli.heard.peer # ClientPeer
    /\ calls = <<Call("consume", cli.heard.producer)>>

\* C27: resumeConsumer for a consumer is sent in the step that stores it,
\* once, after the server has answered its consume request with success and
\* the local consumer was created; a consume that was answered with an
\* error or whose local consumer could not be created stores no consumer
\* and sends no resumeConsumer.
C27_ResumeAfterStored ==
    /\ [](\A n \in cli.consumers :
             n \in DOMAIN cli.consuming /\ cli.consuming[n].st = "stored")
    /\ [][\A n \in 1..MaxAnnounced :
             /\ Call("resumeConsumer", n) \in SeqToSet(calls') =>
                   /\ n \in DOMAIN cli.consuming
                   /\ cli.consuming[n].st = "creating"
                   /\ cli'.consuming[n].st = "stored"
                   /\ n \in cli'.consumers
                   /\ Len(Sends(calls', "resumeConsumer")) = 1
             /\ (n \in DOMAIN cli'.consuming /\ cli'.consuming[n].st = "failed")
                   => /\ n \notin cli'.consumers
                      /\ Call("resumeConsumer", n) \notin SeqToSet(calls')
          ]_vars

\* A consumer has just been stored and resumed.
C27_Witness ==
    \E n \in cli.consumers : calls = <<Call("resumeConsumer", n)>>

\* C28: a connect event of a local transport sends one connectWebRtcTransport
\* for that transport and tells the transport nothing yet; callback is
\* called only on an answer without error and errback only on an answer
\* with one, each answer leads to one of the two, never to both.
C28_ConnectEventHandshake ==
    [][\A d \in {"send", "recv"} :
          LET a == cli.tconn[d]
              b == cli'.tconn[d]
              id == TransportId(d)
              told == {x \in SeqToSet(calls') :
                          x.arg = id /\ x.op \in {"callback", "errback"}}
          IN /\ (b.events = a.events + 1)
                   <=> Call("connectWebRtcTransport", id) \in SeqToSet(calls')
             /\ (b.events = a.events + 1) =>
                   /\ Len(Sends(calls', "connectWebRtcTransport")) = 1
                   /\ told = {}
             /\ Call("callback", id) \in told =>
                   a.st = "requested" /\ b.answer = "ok"
             /\ Call("errback", id) \in told =>
                   a.st = "requested" /\ b.answer = "error"
             /\ Cardinality(told) <= 1
             /\ (a.st = "requested" /\ b.st # "requested") =>
                   Cardinality(told) = 1
      ]_vars

\* The send transport was refused once, asked again and is now told ready.
C28_Witness ==
    /\ cli.tconn.send.events = 2
    /\ cli.tconn.send.st = "ready"
    /\ calls = <<Call("callback", TransportId("send"))>>

\* C29: stopProducing() with a producer sends one stopRecording for the
\* producer's id and one speaking=false, closes the producer, leaves the
\* client without producer and with isProducing and isRecording false, and
\* leaves the consumers and the transports as they are; without a producer
\* it sends nothing and changes nothing.
C29_StopProducing ==
    [][(calls' # <<>> /\ calls'[1].op = "stopProducing") =>
          IF mic.producing
          THEN /\ Sends(calls', "stopRecording")
                     = <<Call("stopRecording", ProducerId(mic))>>
               /\ Sends(calls', "speaking") = <<Call("speaking", 0)>>
               /\ Sends(calls', "producer.close")
                     = <<Call("producer.close", ProducerId(mic))>>
               /\ mic'.sent = Append(mic.sent, FALSE)
               /\ ~mic'.producing /\ ~mic'.isProducing /\ ~mic'.isRecording
               /\ UNCHANGED cli
          ELSE /\ calls' = <<Call("stopProducing", 0)>>
               /\ UNCHANGED <<cli, mic>>
      ]_vars

\* A client that holds a consumer has just muted its live producer.
C29_Witness ==
    /\ calls # <<>>
    /\ calls[1].op = "stopProducing"
    /\ Len(calls) > 1
    /\ cli.consumers # {}
    /\ cli.sendTransport /\ cli.recvTransport

\* C30: the cleanup of the room view closes the producer with its level
\* detection, every consumer with its audio element and both transports
\* before it calls socket.disconnect(), which is the last thing it does,
\* and from then on the client holds no producer, no consumer and no
\* transport.
C30_TeardownReleases ==
    /\ [](~cli.socketOpen =>
             /\ ~mic.producing
             /\ cli.consumers = {}
             /\ ~cli.sendTransport /\ ~cli.recvTransport)
    /\ [][(cli.socketOpen /\ ~cli'.socketOpen) =>
             /\ calls'[Len(calls')] = Call("socket.disconnect", 0)
             /\ Len(Sends(calls', "socket.disconnect")) = 1
             /\ mic.producing =>
                   /\ Call("producer.close", ProducerId(mic)) \in SeqToSet(calls')
                   /\ Call("stopAudioLevelDetection", 0) \in SeqToSet(calls')
             /\ \A n \in cli.consumers :
                   /\ Call("consumer.close", n) \in SeqToSet(calls')
                   /\ Call("cleanupAudioResources", n) \in SeqToSet(calls')
             /\ cli.sendTransport =>
                   Call("transport.close", TransportId("send")) \in SeqToSet(calls')
             /\ cli.recvTransport =>
                   Call("transport.close", TransportId("recv")) \in SeqToSet(calls')
          ]_vars

\* A view that held a producer, a consumer and both transports was torn down.
C30_Witness ==
    /\ ~cli.socketOpen
    /\ Sends(calls, "producer.close") # <<>>
    /\ Sends(calls, "consumer.close") # <<>>
    /\ Len(Sends(calls, "transport.close")) = 2


\* A step in which a level-polling loop emits a speaking event: the event
\* is all the step calls (stopProducing logs its own name first).
TrackerEmits == calls' # <<>> /\ calls'[1].op = "speaking"

\* C31: whenever production stops - by mute, by teardown, by closure of the
\* send transport or by loss of the signaling connection - the level-polling
\* loop is cancelled in that step, and no loop emits a speaking event while
\* the client has no producer or its signaling connection is lost.
C31_TrackerStopsWithProduction ==
    [][/\ ((mic.producing /\ ~mic'.producing)
             \/ (mic.producing /\ cli.link = "up" /\ cli'.link = "down"))
             => Sends(calls', "stopAudioLevelDetection") # <<>>
       /\ (~mic.producing \/ cli.link = "down") => ~TrackerEmits]_vars


\* The continuations of connect() run, and the server answers the requests
\* of connect().
SpecSessionFair ==
    /\ SpecSession
    /\ WF_vars(CapabilitiesResponse("result"))
    /\ WF_vars(CapabilitiesLoaded)
    /\ WF_vars(DeviceLoaded(TRUE))
    /\ WF_vars(\E ok \in BOOLEAN : TransportResponse(ok))

\* The newProducer listener has last been called for producer i of another
\* peer, with kind audio.
Announced(i) ==
    /\ cli.heard.producer = i
    /\ WantsConsume(cli.heard.peer, cli.heard.kind)

\* A consume request for producer i has been sent.
ConsumeSent(i) == \E n \in DOMAIN cli.consuming : cli.consuming[n].producer = i

\* C32: negotiation is sequential - createWebRtcTransport is sent only after
\* the capability request has completed, the send transport exists before
\* the receive transport is asked for, and no produce or consume request is
\* sent before both transports exist; a consume that fails leaves the other
\* consumes as they are; and a newProducer event of another peer's audio,
\* whenever it arrives, is followed by a consume request for its producer
\* unless connect() fails.
C32_SequentialNegotiation ==
    /\ [][/\ Sends(calls', "createWebRtcTransport") # <<>>
               => cli'.fetch = "resolved"
          /\ (cli'.pc = "recv" /\ cli.pc # "recv")
               => cli'.sendTransport /\ ~cli'.recvTransport
          /\ (cli'.recvTransport /\ ~cli.recvTransport) => cli.sendTransport
          /\ (Sends(calls', "produce") # <<>>
                \/ Sends(calls', "consume") # <<>>)
               => cli.sendTransport /\ cli.recvTransport
          /\ \A n \in DOMAIN cli.consuming :
               ((cli'.consuming[n].st = "failed")
                   /\ (cli.consuming[n].st # "failed"))
               => (\A m \in DOMAIN cli.consuming \ {n} :
                      cli'.consuming[m] = cli.consuming[m])]_vars
    /\ \A i \in 1..MaxAnnounced :
          Announced(i) ~> (ConsumeSent(i) \/ cli.pc = "failed")


\* C33: when the client receives peerDisconnected for peer P, it closes and
\* removes every consumer of a producer of P and leaves the consumers of the
\* other peers as they are, so that the consumers it holds afterwards are
\* those of the producers of the remaining peers.
C33_PeerDisconnectedClosesConsumers ==
    [][(calls' # <<>> /\ calls'[1].op = "peerDisconnected") =>
          LET P == calls'[1].arg
              ofP == {n \in cli.consumers : cli.consuming[n].peer = P}
          IN /\ cli'.consumers = cli.consumers \ ofP
             /\ \A n \in ofP : Call("consumer.close", n) \in SeqToSet(calls')
             /\ \A n \in cli.consumers \ ofP :
                   Call("consumer.close", n) \notin SeqToSet(calls')]_vars


\* C34: a speaking or joinRoom message of a peer connected to room A,
\* whatever roomId and peerId its payload carries, delivers userSpeaking and
\* userJoined to peers of room A only, and leaves the stored speaking flag
\* of every user other than the sender as it was.
C34_EventsConfinedToSender ==
    [][out'.resp.op \in {"speaking", "joinRoom"} =>
          LET p == out'.resp.peer
          IN /\ \A x \in DOMAIN out'.evts :
                   x[2].type \in {"userSpeaking", "userJoined"}
                      => conn[x[1]].roomId = conn[p].roomId
             /\ \A u \in Peers \ {p} :
                   users[u] # NoUser
                      => /\ users'[u] # NoUser
                         /\ users'[u].isSpeaking = users[u].isSpeaking]_vars


\* C35: connectWebRtcTransport, resumeConsumer and stopRecording that name
\* a transport, a consumer or the recording of a producer owned by another
\* peer are answered with an error and leave that handle as it was.
C35_OnlyOwnHandles ==
    [][LET p == out'.resp.peer
           id == out'.resp.arg
       IN /\ (out'.resp.op = "connectWebRtcTransport"
                /\ id \in DOMAIN transports /\ transports[id].owner # p)
               => ~out'.resp.ok /\ transports'[id] = transports[id]
          /\ (out'.resp.op = "resumeConsumer"
                /\ id \in DOMAIN consumers /\ consumers[id].owner # p)
               => ~out'.resp.ok /\ consumers'[id] = consumers[id]
          /\ (out'.resp.op = "stopRecording"
                /\ id \in DOMAIN producers /\ producers[id].owner # p
                /\ id \in Recordings)
               => ~out'.resp.ok /\ id \in Recordings']_vars


\* Peer a has disconnected from a room that still has members.
Gone(a) == conn[a].st = "closed" /\ roomObjs[conn[a].room].peers # {}

\* The store a request looks its handle up in.
StoreOf(op) ==
    CASE op \in {"connectWebRtcTransport", "produce"} -> transports
      [] op = "consume" -> producers
      [] op = "resumeConsumer" -> consumers
      [] OTHER -> << >>

\* C37: after a peer has disconnected from a room that still has other
\* members, the transport, producer and consumer stores hold no entry of a
\* handle that peer owned, and a later connectWebRtcTransport, produce,
\* consume or resumeConsumer that names one of them is answered as not found.
C37_StoresForgetThePeer ==
    /\ [](\A a \in Peers : Gone(a) =>
            /\ \A t \in DOMAIN transports : transports[t].owner # a
            /\ \A i \in DOMAIN producers : producers[i].owner # a
            /\ \A c \in DOMAIN consumers : consumers[c].owner # a)
    /\ [][LET store == StoreOf(out'.resp.op)
               id == out'.resp.arg
           IN (id \in DOMAIN store /\ Gone(store[id].owner))
                 => ~out'.resp.ok /\ out'.resp.err = "NotFound"]_vars


\* Producer i is open and its owner is a member of room r.
LiveIn(i, r) ==
    /\ i \in DOMAIN producers
    /\ ~producers[i].closed
    /\ producers[i].owner \in Members(r)

\* C36: once every event sent has reached its listener, every member of a
\* room has been told by newProducer of every live producer of the other
\* members, also of one that was made before the member joined.
C36_MembersLearnProducers ==
    Delivered =>
       \A r \in RoomIds : \A p \in Members(r) : \A i \in DOMAIN producers :
          (LiveIn(i, r) /\ producers[i].owner # p) => i \in known[p]


\* The producers of the client that are open: the one in this.producer and
\* those that were in it when a later produce() overwrote it.
LocalProducers == (IF mic.producing THEN 1 ELSE 0) + mic.leaked

\* The level-polling intervals of the client that have been set and not
\* cleared.
PollingLoops == (IF mic.producing THEN 1 ELSE 0) + Len(mic.lost)

\* C38: between the operations of the client, isProducing is true exactly
\* when the client has a local producer, isRecording equals isProducing, and
\* a producing client is connected and has its send transport, whatever the
\* order of produce, stopProducing, disconnect and transport closure.
C38_FlagsMatchProducer ==
    /\ mic.isProducing <=> LocalProducers > 0
    /\ mic.isRecording = mic.isProducing
    /\ mic.isProducing => cli.isConnected /\ cli.sendTransport

\* C39: the client has at most one level-polling loop and at most one local
\* producer at any time, also when the microphone is switched on twice
\* before the first produce() has returned, and after a mute no loop is
\* left.
C39_OneProducerOneLoop ==
    /\ LocalProducers <= 1
    /\ PollingLoops <= 1
    /\ ~mic.producing => PollingLoops = 0


\* C40: a room view that is torn down while connect() is in progress holds
\* no send or receive transport and is not connected from then on, whatever
\* callbacks run afterwards, and no step after the teardown emits joinRoom
\* on the closed socket.
C40_TeardownDuringConnect ==
    /\ [](~cli.socketOpen
            => ~cli.sendTransport /\ ~cli.recvTransport /\ ~cli.isConnected)
    /\ [][~cli.socketOpen => Sends(calls', "joinRoom") = <<>>]_vars

====
